---- MODULE Spec2Model ----
(***************************************************************************)
(* State-machine model of the RADARSAT-2 game's per-frame simulation core: *)
(* Game (src/src/game.js), the coverage-mode Tile and ramped TileSpawner   *)
(* (src/src/main.js 190-347), Trail / TrailSpawner (src/unnamed/part_003)  *)
(* and the fixed-interval TileSpawner (src/unnamed/part_002).              *)
(*                                                                         *)
(* Units.  All quantities are integers:                                    *)
(*   time    seconds (deltaTime is a whole number of seconds);             *)
(*   angle   1/7200 rad, so angularVelocity = 10/300 rad/s = 240 units/s   *)
(*           and one world unit of arc on the sphere (R = 300) = 24 units; *)
(*   x       0.05 world units (0.8 -> 16, 1.5 -> 30, 2.25 -> 45 ...).      *)
(* Every angle the program produces on this grid is even (multiples of 240 *)
(* from the clock, 2*n from the spawner, multiples of 96 from the trail    *)
(* cadence, 12*depth for half a tile), so a comparison against the         *)
(* irrational 30 degrees = 3769.91 units or 20 degrees = 2513.27 units is  *)
(* decided exactly by comparing against its floor.                         *)
(*                                                                         *)
(* Position along the track.  A mesh parented to the ground at polar angle *)
(* theta has absolute z = R*cos(theta - rotation).  Near the scoring plane *)
(* (theta - rotation = 90 degrees) this is R * (rotation + 90deg - theta); *)
(* the model uses that linear form, in angle units, for tiles and trails.  *)
(* The 0.1 height offset and the sqrt(R^2 - x^2) lane correction (at most  *)
(* 0.01 world units) are left out of z.                                    *)
(*                                                                         *)
(* TRAIL_HEIGHT is 5 world units here where part_003:8 has 0.17: with 0.17 *)
(* one second of holding emits 73 trails; with 5 the cadence is 96 angle   *)
(* units (4 world units), 2.5 trails per second, and the arithmetic of     *)
(* spawnTrails (floor, remainder carried) is the same.                     *)
(***************************************************************************)
EXTENDS Integers, Sequences, FiniteSets, TLC

(***************************************************************************)
(* Program constants                                                       *)
(***************************************************************************)
angularVelocity == 240          \* game.js:25  tileSpeed / sphereRadius, in angle units per second
TILE_LIFE_ANGLE == 3769         \* game.js:193 "> 30" degrees, floor(30 deg) in angle units
TRAIL_LIFE_ANGLE == 2513        \* part_003:218 "> 20" degrees, floor(20 deg) in angle units
TILE_LEAD == 3769               \* main.js:276 120 degrees lead less the 90 degrees of the scoring plane
UNITS_PER_WORLD == 24           \* angle units per world unit of arc: 7200 / sphereRadius (game.js:24)
TRAIL_HEIGHT == 5               \* part_003:8 (0.17 in the source, see above)
X_OFFSET == -6                  \* part_003:147 xOffset = -0.3
TARGET_X_LIMIT == 60            \* game.js:203 clamp to [-3, 3]
INITIAL_LIVES == 3              \* game.js:32
startInterval == 5              \* main.js:300
minInterval == 1                \* main.js:301
rampDuration == 120             \* main.js:302
TILE_WIDTHS == <<16, 30, 46>>   \* input.js:87 [0.8, 1.5, 2.3]
COLUMN_POSITIONS == <<-45, -15, 15, 45>>  \* main.js:197

Null == -1                      \* part_003:117 lastSpawnRotation = null (every real rotation is >= 0)
NaN == -2                       \* game.js:67 what parseInt returns for a missing or malformed data-index

\* <, >= and === of JavaScript numbers: every comparison with NaN is false
JsLt(a, b) == a # NaN /\ b # NaN /\ a < b
JsGe(a, b) == a # NaN /\ b # NaN /\ a >= b
JsEq(a, b) == a # NaN /\ b # NaN /\ a = b

(***************************************************************************)
(* Bounds of the model                                                     *)
(***************************************************************************)
MaxSeconds == 30                \* the clock is followed for this many seconds after a restart
MaxEvents == 2                  \* input operations and short frames in one run
MaxTrails == 26                 \* trails in the list at once

MaxStartSeconds == 10           \* seconds the clock is followed for around a startGame()
MaxSubmits == 3                 \* submitScore calls that reach this._push
MaxIdleSeconds == 32             \* seconds the clock is followed for when no input arrives
MaxGameTime == 125              \* seconds a TileSpawner driven on its own is followed for
MaxFixedTime == 8               \* half seconds a fixed-interval TileSpawner is followed for

\* deltaTime values of a frame, in seconds: the nominal frame and a short one
DeltaTimes == {5, 1}
NominalFrame == CHOOSE d \in DeltaTimes : \A e \in DeltaTimes : e <= d
\* (column, widthIndex, TILE_DEPTH) drawn by the Tile constructor; the model
\* draws from this subset of {0..3} x {0..2} x [2,6]
TileKinds == { <<1, 0, 2>>, <<1, 0, 6>> }
\* x positions handed to moveTargetZone
TargetInputs == {4, 80, -80}
\* index values handed to setTargetWidthIndex (keys and legend clicks)
WidthInputs == {-1, 1, 3, NaN}

Min(a, b) == IF a < b THEN a ELSE b
Max(a, b) == IF a > b THEN a ELSE b

VARIABLES
  rotation,        \* ground.rotation.x
  tiles,           \* Game.tiles
  score, lives, highScore,
  gameOver, paused, isHitting,
  targetX,         \* targetZone.position.x
  targetWidthIndex,
  spawner,         \* TileSpawner fields
  trailSpawner,    \* TrailSpawner fields, trails included
  events,          \* history: input operations and short frames so far
  triggerCalls,    \* history: calls of triggerGameOver since the last restart
  onGameOverCalls, \* history: invocations of the onGameOver callback since the last restart
  missed,          \* history: tiles that passed below 50 percent since the last restart
  liveTiles,       \* history: Tile objects constructed less the calls of Tile.dispose()
  fixedSpawners,   \* two fixed-interval TileSpawner instances (src/unnamed/part_002)
  gameLog,         \* history: the game-over panel and what update() did since the last restart
  inputHandler,    \* the InputHandler (src/src/input.js): spacebarHeld
  hitTile,         \* a hold-to-hit Tile (src/src/tile.js)
  placed,          \* the mesh placement last computed by a createMesh()
  leaderboard      \* an OnlineLeaderboard (src/src/leaderboard.js)

\* the state of the components that are not part of the Game
others == <<hitTile, placed, leaderboard>>

vars == <<rotation, tiles, score, lives, highScore, gameOver, paused, isHitting,
          targetX, targetWidthIndex, spawner, trailSpawner, events,
          triggerCalls, onGameOverCalls, missed, liveTiles, fixedSpawners, gameLog,
          inputHandler, others>>

(***************************************************************************)
(* Tile (coverage mode), src/src/main.js 199-292                           *)
(***************************************************************************)
\* new Tile(column, spawnTheta, ...): kind = <<column, widthIndex, TILE_DEPTH>>
NewTile(kind, spawnTheta) ==
  [ column |-> kind[1], widthIndex |-> kind[2], TILE_DEPTH |-> kind[3],
    TILE_WIDTH |-> TILE_WIDTHS[kind[2] + 1],
    tileArea |-> TILE_WIDTHS[kind[2] + 1] * kind[3],
    spawnTheta |-> spawnTheta,
    age |-> 0, clickable |-> TRUE,
    totalCoverageArea |-> 0, hasPassedTarget |-> FALSE,
    coveragePercent |-> 0,      \* percent * tileArea (the percent is a fraction)
    passes |-> 0,               \* history: times checkPassedTarget returned true
    scored |-> 0 ]              \* history: times update() added this tile to the score

\* mesh.getAbsolutePosition() of a tile
TilePosX(t) == COLUMN_POSITIONS[t.column + 1]
TilePosZ(t, rot) == rot - t.spawnTheta - TILE_LEAD

GetZBounds(t, rot) ==
  LET halfDepth == (t.TILE_DEPTH * UNITS_PER_WORLD) \div 2
  IN  [ front |-> TilePosZ(t, rot) + halfDepth, back |-> TilePosZ(t, rot) - halfDepth ]

GetXBounds(t) ==
  \* every TILE_WIDTH is even in x-units, so the half width is exact
  [ left |-> TilePosX(t) - t.TILE_WIDTH \div 2, right |-> TilePosX(t) + t.TILE_WIDTH \div 2 ]

\* overlapWidth of addTrailCoverage; with an undefined trailWidth the bounds
\* are NaN, Math.max(0, NaN) is NaN and "overlapWidth > 0" is false
OverlapWidth(t, trailX, trailWidth) ==
  IF trailWidth = NaN THEN 0
  ELSE Max(0, Min(GetXBounds(t).right, trailX + trailWidth \div 2)
              - Max(GetXBounds(t).left, trailX - trailWidth \div 2))

\* addTrailCoverage() that adds the full trail width
AddTrailCoverage_FullWidth(t, trailX, trailWidth, trailHeight) ==
  IF t.hasPassedTarget THEN t
  ELSE IF OverlapWidth(t, trailX, trailWidth) > 0
       THEN [t EXCEPT !.totalCoverageArea = @ + trailWidth * trailHeight]
       ELSE t

AddTrailCoverage(t, trailX, trailWidth, trailHeight) ==
  IF t.hasPassedTarget THEN t
  ELSE IF OverlapWidth(t, trailX, trailWidth) > 0
       THEN [t EXCEPT !.totalCoverageArea = @ + OverlapWidth(t, trailX, trailWidth) * trailHeight]
       ELSE t

\* checkPassedTarget() without the Math.min(100, ...) of line 251
CheckPassedTarget_NoClamp(t, rot) ==
  IF t.hasPassedTarget THEN <<t, FALSE>>
  ELSE IF GetZBounds(t, rot).back > 0
       THEN << [t EXCEPT !.hasPassedTarget = TRUE,
                         !.clickable = FALSE,
                         !.coveragePercent = t.totalCoverageArea * 100,
                         !.passes = @ + 1],
               TRUE >>
       ELSE <<t, FALSE>>

\* checkPassedTarget() without the early return of line 246
CheckPassedTarget_NoEarlyReturn(t, rot) ==
  IF GetZBounds(t, rot).back > 0
  THEN << [t EXCEPT !.hasPassedTarget = TRUE,
                    !.clickable = FALSE,
                    !.coveragePercent = Min(100 * t.tileArea, t.totalCoverageArea * 100),
                    !.passes = @ + 1],
          TRUE >>
  ELSE <<t, FALSE>>

\* checkPassedTarget(): <<tile afterwards, value returned>>
CheckPassedTarget(t, rot) ==
  IF t.hasPassedTarget THEN <<t, FALSE>>
  ELSE IF GetZBounds(t, rot).back > 0
       THEN << [t EXCEPT !.hasPassedTarget = TRUE,
                         !.clickable = FALSE,
                         !.coveragePercent = Min(100 * t.tileArea, t.totalCoverageArea * 100),
                         !.passes = @ + 1],
               TRUE >>
       ELSE <<t, FALSE>>

GetCoveragePercent(t) == t.coveragePercent

\* Math.round(percent) for percent = pct / area >= 0
Round(pct, area) == (2 * pct + area) \div (2 * area)

UpdateAge(e, deltaTime) == [e EXCEPT !.age = @ + deltaTime]

(***************************************************************************)
(* TileSpawner (ramped interval), src/src/main.js 294-346                  *)
(***************************************************************************)
NewTileSpawner ==
  [ currentSpawnTheta |-> 0, timeSinceLastSpawn |-> 0, gameTime |-> 0,
    \* history: spawn angle of the last tile update() returned since the
    \* last reset() or syncToRotation(), Null when there is none
    lastTileTheta |-> Null,
    \* history: deltaTime passed to update() since the last syncToRotation(),
    \* Null when there has been none since construction or reset()
    sinceSync |-> Null ]

\* the sinceSync history after an update(deltaTime)
SinceSync(sp, deltaTime) == IF sp.sinceSync = Null THEN Null ELSE sp.sinceSync + deltaTime

\* getSpawnInterval() without the Math.min(..., 1) of line 306
GetSpawnInterval_NoClamp(gameTime) ==
  startInterval * rampDuration - (startInterval - minInterval) * gameTime

\* getSpawnInterval(), as the interval times rampDuration:
\*   startInterval - (startInterval - minInterval) * min(gameTime / rampDuration, 1)
GetSpawnInterval(gameTime) ==
  startInterval * rampDuration - (startInterval - minInterval) * Min(gameTime, rampDuration)

\* update() that advances the spawn angle by the time waited, not the interval
TileSpawnerUpdate_AdvanceByElapsed(sp, deltaTime, kind) ==
  LET gameTime == sp.gameTime + deltaTime
      timeSinceLastSpawn == sp.timeSinceLastSpawn + deltaTime
      currentInterval == GetSpawnInterval(gameTime)
      tile == NewTile(kind, sp.currentSpawnTheta)
  IN  IF timeSinceLastSpawn * rampDuration >= currentInterval
      THEN [ spawner |-> [ gameTime |-> gameTime, timeSinceLastSpawn |-> 0,
                           currentSpawnTheta |-> sp.currentSpawnTheta
                                + angularVelocity * timeSinceLastSpawn,
                           lastTileTheta |-> tile.spawnTheta,
                           sinceSync |-> SinceSync(sp, deltaTime) ],
             spawned |-> TRUE,
             tile |-> tile ]
      ELSE [ spawner |-> [ sp EXCEPT !.gameTime = gameTime,
                                     !.timeSinceLastSpawn = timeSinceLastSpawn,
                                     !.sinceSync = SinceSync(sp, deltaTime) ],
             spawned |-> FALSE,
             tile |-> tile ]

\* update() that moves the spawn angle back, as the legacy spawner of
\* tile.js:190 moves currentSpawnZ
TileSpawnerUpdate_Backwards(sp, deltaTime, kind) ==
  LET gameTime == sp.gameTime + deltaTime
      timeSinceLastSpawn == sp.timeSinceLastSpawn + deltaTime
      currentInterval == GetSpawnInterval(gameTime)
      tile == NewTile(kind, sp.currentSpawnTheta)
  IN  IF timeSinceLastSpawn * rampDuration >= currentInterval
      THEN [ spawner |-> [ gameTime |-> gameTime, timeSinceLastSpawn |-> 0,
                           currentSpawnTheta |-> sp.currentSpawnTheta
                                - (angularVelocity * currentInterval) \div rampDuration,
                           lastTileTheta |-> tile.spawnTheta,
                           sinceSync |-> SinceSync(sp, deltaTime) ],
             spawned |-> TRUE,
             tile |-> tile ]
      ELSE [ spawner |-> [ sp EXCEPT !.gameTime = gameTime,
                                     !.timeSinceLastSpawn = timeSinceLastSpawn,
                                     !.sinceSync = SinceSync(sp, deltaTime) ],
             spawned |-> FALSE,
             tile |-> tile ]

\* update(deltaTime): [spawner afterwards, spawned, tile]
TileSpawnerUpdate(sp, deltaTime, kind) ==
  LET gameTime == sp.gameTime + deltaTime
      timeSinceLastSpawn == sp.timeSinceLastSpawn + deltaTime
      currentInterval == GetSpawnInterval(gameTime)
      tile == NewTile(kind, sp.currentSpawnTheta)
  IN  IF timeSinceLastSpawn * rampDuration >= currentInterval
      THEN [ spawner |-> [ gameTime |-> gameTime, timeSinceLastSpawn |-> 0,
                           currentSpawnTheta |-> sp.currentSpawnTheta
                                + (angularVelocity * currentInterval) \div rampDuration,
                           lastTileTheta |-> tile.spawnTheta,
                           sinceSync |-> SinceSync(sp, deltaTime) ],
             spawned |-> TRUE,
             tile |-> tile ]
      ELSE [ spawner |-> [ sp EXCEPT !.gameTime = gameTime,
                                     !.timeSinceLastSpawn = timeSinceLastSpawn,
                                     !.sinceSync = SinceSync(sp, deltaTime) ],
             spawned |-> FALSE,
             tile |-> tile ]

TileSpawnerReset(sp) ==
  [ sp EXCEPT !.currentSpawnTheta = 0, !.timeSinceLastSpawn = 0, !.gameTime = 0,
              !.lastTileTheta = Null, !.sinceSync = Null ]

\* syncToRotation() that leaves the spawn angle where it is
SyncToRotation_KeepAngle(sp, groundRotationX) ==
  [ sp EXCEPT !.lastTileTheta = Null, !.sinceSync = 0 ]

SyncToRotation(sp, groundRotationX) ==
  [ sp EXCEPT !.currentSpawnTheta = groundRotationX, !.lastTileTheta = Null,
              !.sinceSync = 0 ]

(***************************************************************************)
(* TileSpawner (fixed interval), src/unnamed/part_002 142-177.  Its clock  *)
(* counts half seconds, so that the default interval of 1.5 s is whole.    *)
(***************************************************************************)
spawnInterval == 3              \* part_002:143 spawnInterval = 1.5, in half seconds

NewFixedSpawner ==
  [ currentSpawnTheta |-> 0, timeSinceLastSpawn |-> 0,
    elapsed |-> 0,              \* history: sum of the deltaTime values passed to update
    emitted |-> 0 ]             \* history: tiles returned by update

\* update(deltaTime, scene, ground), deltaTime in half seconds
FixedSpawnerUpdate(sp, deltaTime) ==
  LET timeSinceLastSpawn == sp.timeSinceLastSpawn + deltaTime
  IN  IF timeSinceLastSpawn >= spawnInterval
      THEN [ sp EXCEPT !.timeSinceLastSpawn = 0,
                       !.currentSpawnTheta = @ + (angularVelocity * spawnInterval) \div 2,
                       !.elapsed = @ + deltaTime,
                       !.emitted = @ + 1 ]
      ELSE [ sp EXCEPT !.timeSinceLastSpawn = timeSinceLastSpawn,
                       !.elapsed = @ + deltaTime ]

(***************************************************************************)
(* Tile (hold to hit), src/src/tile.js 12-168; src/unnamed/part_002        *)
(* 191-311 is the same class without the progress overlay.  Time is in     *)
(* tenths of a second here, and hitProgress is kept in sixtieths, so that  *)
(* deltaTime * tileSpeed / TILE_DEPTH is whole for every depth drawn.      *)
(***************************************************************************)
tileSpeed == 10                 \* game.js:23, world units per second
PROGRESS_ONE == 60              \* tile.js:129 hitProgress 1, in sixtieths
HIT_PENALTY == 12               \* tile.js:139 the 0.2 taken off by stopHit(), in sixtieths

\* TILE_DEPTH values drawn by the constructor (2 + Math.random() * 4)
HitDepths == {2, 3, 4, 5, 6}
\* deltaTime values passed to updateHit, in tenths of a second
HitDeltas == {1, 2}

NewHitTile(depth) ==
  [ TILE_DEPTH |-> depth, clickable |-> TRUE, isBeingHit |-> FALSE, hitProgress |-> 0,
    completions |-> 0,          \* history: calls of completeHit()
    progressDisposals |-> 0,    \* history: dispose() calls received by progressMesh
    meshDisposals |-> 0,        \* history: dispose() calls received by mesh
    disposed |-> FALSE,         \* history: Tile.dispose() has been called
    \* history: deltaTime of the updateHit calls that added progress, Null
    \* once a stopHit() has taken progress off
    held |-> 0,
    lastReturn |-> Null,        \* history: 1 / 0 for the true / false of the last startHit()
    lastStop |-> Null ]         \* history: hitProgress when stopHit() was last called

CompleteHit(t) ==
  [ t EXCEPT !.clickable = FALSE, !.isBeingHit = FALSE,
             !.progressDisposals = @ + 1,      \* line 149
             !.completions = @ + 1 ]

StartHit(t) ==
  IF ~t.clickable THEN [ t EXCEPT !.lastReturn = 0 ]
  ELSE [ t EXCEPT !.isBeingHit = TRUE, !.lastReturn = 1 ]

\* deltaTime * progressPerSecond, deltaTime in tenths of a second and the
\* result in sixtieths
ProgressGain(t, deltaTime, speed) == (PROGRESS_ONE * deltaTime * speed) \div (10 * t.TILE_DEPTH)

\* updateHit() without the test of line 120
UpdateHit_NoGuard(t, deltaTime, speed) ==
  LET t1 == [ t EXCEPT !.hitProgress = @ + ProgressGain(t, deltaTime, speed),
                       !.held = IF @ = Null THEN Null ELSE @ + deltaTime ]
  IN  IF t1.hitProgress >= PROGRESS_ONE THEN CompleteHit(t1) ELSE t1

\* updateHit() that adds deltaTime / TILE_DEPTH, without the speed
UpdateHit_NoSpeed(t, deltaTime, speed) ==
  IF ~t.isBeingHit \/ ~t.clickable THEN t
  ELSE LET t1 == [ t EXCEPT !.hitProgress = @ + ProgressGain(t, deltaTime, 1),
                            !.held = IF @ = Null THEN Null ELSE @ + deltaTime ]
       IN  IF t1.hitProgress >= PROGRESS_ONE THEN CompleteHit(t1) ELSE t1

UpdateHit(t, deltaTime, speed) ==
  IF ~t.isBeingHit \/ ~t.clickable THEN t
  ELSE LET t1 == [ t EXCEPT !.hitProgress = @ + ProgressGain(t, deltaTime, speed),
                            !.held = IF @ = Null THEN Null ELSE @ + deltaTime ]
       IN  IF t1.hitProgress >= PROGRESS_ONE THEN CompleteHit(t1) ELSE t1

\* stopHit() without the Math.max(0, ...) of line 139
StopHit_NoFloor(t) ==
  [ t EXCEPT !.isBeingHit = FALSE,
             !.lastStop = t.hitProgress,
             !.hitProgress = @ - HIT_PENALTY,
             !.held = IF t.hitProgress = 0 THEN @ ELSE Null ]

StopHit(t) ==
  [ t EXCEPT !.isBeingHit = FALSE,
             !.lastStop = t.hitProgress,
             !.hitProgress = Max(0, @ - HIT_PENALTY),
             !.held = IF t.hitProgress = 0 THEN @ ELSE Null ]

IsFullyHit(t) == t.hitProgress >= PROGRESS_ONE /\ ~t.clickable

\* dispose(): this.progressMesh is still set after completeHit()
DisposeHitTile(t) ==
  [ t EXCEPT !.progressDisposals = @ + 1,
             !.meshDisposals = @ + 1,
             !.disposed = TRUE ]

(***************************************************************************)
(* Placement on the sphere: Tile.createMesh (src/src/main.js 275-280) and  *)
(* Trail.createMesh (src/unnamed/part_003 43-56).  Lengths are in          *)
(* hundredths of a world unit here, angles in 1/10000 rad, and sines and   *)
(* cosines in ten-thousandths; Math.sqrt is taken as the integer square    *)
(* root and Math.sin / Math.cos as their series, each within 0.001.        *)
(***************************************************************************)
SPHERE_RADIUS == 30000          \* input.js:84 SPHERE_RADIUS = 300
HEIGHT_OFFSET == 10             \* input.js:85 HEIGHT_OFFSET = 0.1
TRIG_ONE == 10000               \* 1 rad, and the value 1 of a sine
PI == 31416                     \* Math.PI
TILE_LEAD_ANGLE == 20944        \* main.js:276 120 * Math.PI / 180

\* the largest r in lo..hi with r * r <= n
RECURSIVE SqrtBetween(_, _, _)
SqrtBetween(n, lo, hi) ==
  IF lo = hi THEN lo
  ELSE LET mid == (lo + hi + 1) \div 2
       IN  IF mid * mid <= n THEN SqrtBetween(n, mid, hi) ELSE SqrtBetween(n, lo, mid - 1)

\* Math.sqrt(n), rounded down
Sqrt(n) == SqrtBetween(n, 0, 46340)

\* sin(a) for 0 <= a <= PI/2: a - a^3/3! + a^5/5! - a^7/7! + a^9/9!
SinSeries(a) ==
  LET a2 == (a * a) \div TRIG_ONE
      t3 == ((a * a2) \div TRIG_ONE) \div 6
      t5 == ((t3 * a2) \div TRIG_ONE) \div 20
      t7 == ((t5 * a2) \div TRIG_ONE) \div 42
      t9 == ((t7 * a2) \div TRIG_ONE) \div 72
  IN  a - t3 + t5 - t7 + t9

\* Math.sin(theta)
Sin(theta) ==
  LET r == theta % (2 * PI)
  IN  IF 2 * r <= PI THEN SinSeries(r)
      ELSE IF r <= PI THEN SinSeries(PI - r)
      ELSE IF 2 * r <= 3 * PI THEN -SinSeries(r - PI)
      ELSE -SinSeries(2 * PI - r)

\* Math.cos(theta)
Cos(theta) == Sin(theta + PI \div 2)

\* a * s / TRIG_ONE for a length a and a sine s, rounded towards zero
Scale(a, s) == IF s >= 0 THEN (a * s) \div TRIG_ONE ELSE -((a * (-s)) \div TRIG_ONE)

NoPlacement == [ kind |-> "none" ]

\* Trail.createMesh(x, theta): position and rotation.x of the mesh
TrailCreateMesh(x, theta) ==
  LET effectiveRadius == Sqrt(SPHERE_RADIUS * SPHERE_RADIUS - x * x) + HEIGHT_OFFSET
      y == Scale(effectiveRadius, Sin(theta))
      z == Scale(effectiveRadius, Cos(theta))
  IN  [ kind |-> "trail", x |-> x, theta |-> theta,
        position |-> <<x, y, z>>, rotationX |-> -theta ]

\* Tile.createMesh as in src/unnamed/part_002:243, the offset taken off
TileCreateMesh_OffsetBelow(column, spawnTheta) ==
  LET x == 5 * COLUMN_POSITIONS[column + 1]
      theta == spawnTheta + TILE_LEAD_ANGLE
      effectiveRadius == Sqrt(SPHERE_RADIUS * SPHERE_RADIUS - x * x) - HEIGHT_OFFSET
  IN  [ kind |-> "tile", x |-> x, theta |-> theta, spawnTheta |-> spawnTheta,
        position |-> << x, Scale(effectiveRadius, Sin(theta)),
                        Scale(effectiveRadius, Cos(theta)) >>,
        rotationX |-> -theta ]

\* Tile.createMesh(column, spawnTheta): position and rotation.x of the mesh
TileCreateMesh(column, spawnTheta) ==
  LET x == 5 * COLUMN_POSITIONS[column + 1]
      theta == spawnTheta + TILE_LEAD_ANGLE
      effectiveRadius == Sqrt(SPHERE_RADIUS * SPHERE_RADIUS - x * x) + HEIGHT_OFFSET
  IN  [ kind |-> "tile", x |-> x, theta |-> theta, spawnTheta |-> spawnTheta,
        position |-> << x, Scale(effectiveRadius, Sin(theta)),
                        Scale(effectiveRadius, Cos(theta)) >>,
        rotationX |-> -theta ]

(***************************************************************************)
(* OnlineLeaderboard, src/src/leaderboard.js 153-241.  A name is the       *)
(* sequence of its characters.                                             *)
(***************************************************************************)
MAX_VALID_SCORE == 50000        \* leaderboard.js:155
NAME_MAX == 12                  \* leaderboard.js:156 the {1,12} of NAME_REGEX

\* the character class [a-zA-Z0-9 ] of NAME_REGEX
NAME_CHARS ==
  { "a", "b", "c", "d", "e", "f", "g", "h", "i", "j", "k", "l", "m",
    "n", "o", "p", "q", "r", "s", "t", "u", "v", "w", "x", "y", "z",
    "A", "B", "C", "D", "E", "F", "G", "H", "I", "J", "K", "L", "M",
    "N", "O", "P", "Q", "R", "S", "T", "U", "V", "W", "X", "Y", "Z",
    "0", "1", "2", "3", "4", "5", "6", "7", "8", "9", " " }

\* NAME_REGEX.test(name)
NameRegexTest(name) ==
  /\ Len(name) >= 1 /\ Len(name) <= NAME_MAX
  /\ \A i \in 1..Len(name) : name[i] \in NAME_CHARS

\* name.trim(), for a name whose only white space is the space
RECURSIVE Trim(_)
Trim(name) ==
  IF name = <<>> THEN name
  ELSE IF name[1] = " " THEN Trim(Tail(name))
  ELSE IF name[Len(name)] = " " THEN Trim(SubSeq(name, 1, Len(name) - 1))
  ELSE name

NewLeaderboard ==
  [ available |-> FALSE,        \* _available
    initPromise |-> FALSE,      \* _initPromise is set
    initPending |-> FALSE,      \* _doInit() has not settled
    scores |-> <<>>,            \* the entries of the 'scores' list of the database
    pushCalls |-> 0,            \* history: calls of this._push
    rejected |-> FALSE ]        \* history: a submitScore() promise was rejected

\* init(): the promise of the first call is handed to every later one
LeaderboardInit(lb) ==
  IF lb.initPromise THEN lb
  ELSE [ lb EXCEPT !.initPromise = TRUE, !.initPending = TRUE ]

\* _doInit() settles: the imports and getDatabase went through, or one threw
DoInitSettled(lb, loaded) ==
  [ lb EXCEPT !.initPending = FALSE, !.available = loaded ]

\* the .validate rule of the database (src/unnamed/part_000:307) on an entry
RuleAccepts(entry) ==
  /\ Len(entry.name) >= 1 /\ Len(entry.name) <= NAME_MAX
  /\ JsGe(entry.score, 0) /\ ~JsLt(MAX_VALID_SCORE, entry.score)
  /\ entry.score # NaN

\* submitScore(name, points); delivered: the push reached the database (it
\* is rejected, and the rejection caught at line 211, when it did not or
\* when the rule refuses the entry)
SubmitScore(lb, name, points, delivered) ==
  IF ~lb.available THEN lb
  ELSE IF JsLt(points, 0) \/ JsLt(MAX_VALID_SCORE, points) THEN lb
  ELSE IF ~NameRegexTest(name) THEN lb
  ELSE LET entry == [ name |-> Trim(name), score |-> points ]
       IN  [ lb EXCEPT !.pushCalls = @ + 1,
                       !.scores = IF delivered /\ RuleAccepts(entry)
                                  THEN Append(@, entry) ELSE @ ]

(***************************************************************************)
(* Trail and TrailSpawner, src/unnamed/part_003                            *)
(***************************************************************************)
\* new Trail(x, theta, scene, ground, widthIndex) with theta = spawnRotation + PI/2
NewTrail(x, spawnRotation, widthIndex) ==
  [ x |-> x, widthIndex |-> widthIndex,
    \* TILE_WIDTHS[widthIndex], undefined (NaN in every sum) off the array
    width |-> IF widthIndex \in 0..(Len(TILE_WIDTHS) - 1)
              THEN TILE_WIDTHS[widthIndex + 1] ELSE NaN,
    spawnRotation |-> spawnRotation,
    age |-> 0, isHighlighted |-> FALSE,
    covered |-> 0 ]             \* history: addTrailCoverage calls made for this trail

\* trail.mesh.getAbsolutePosition().z
TrailPosZ(tr, rot) == rot - tr.spawnRotation

SetHighlighted(tr) == IF tr.isHighlighted THEN tr ELSE [tr EXCEPT !.isHighlighted = TRUE]

NewTrailSpawner ==
  [ trails |-> <<>>, lastSpawnRotation |-> Null, isSpawning |-> FALSE,
    spawnX |-> 0, spawnWidthIndex |-> 0,
    live |-> 0 ]                \* history: Trail objects constructed less the calls of Trail.dispose()

StartSpawning(ts, x, widthIndex, groundRotation) ==
  [ ts EXCEPT !.isSpawning = TRUE, !.spawnX = x, !.spawnWidthIndex = widthIndex,
              !.lastSpawnRotation = groundRotation ]

UpdateSpawnPosition(ts, x, widthIndex) ==
  [ ts EXCEPT !.spawnX = x, !.spawnWidthIndex = widthIndex ]

\* stopSpawning() that also disposes and drops the trails
StopSpawning_DisposeTrails(ts) ==
  [ ts EXCEPT !.isSpawning = FALSE, !.lastSpawnRotation = Null,
              !.trails = <<>>, !.live = @ - Len(ts.trails) ]

\* stopSpawning() without line 139
StopSpawning_KeepsSpawning(ts) ==
  [ ts EXCEPT !.lastSpawnRotation = Null ]

StopSpawning(ts) ==
  [ ts EXCEPT !.isSpawning = FALSE, !.lastSpawnRotation = Null ]

\* angularSpacing = TRAIL_HEIGHT * 0.8 / effectiveRadius, in angle units
AngularSpacing == (TRAIL_HEIGHT * 8 * UNITS_PER_WORLD) \div 10

\* the for loop of spawnTrails: trails 1 .. trailsToSpawn pushed onto trs
SpawnLoop(trailsToSpawn, ts, trs) ==
  trs \o [ k \in 1..trailsToSpawn |->
             NewTrail(ts.spawnX + X_OFFSET,
                      ts.lastSpawnRotation + k * AngularSpacing,
                      ts.spawnWidthIndex) ]

\* Math.ceil in place of Math.floor
TrailsToSpawn_Ceil(rotationDelta) == (rotationDelta + AngularSpacing - 1) \div AngularSpacing

\* Math.floor(rotationDelta / angularSpacing)
TrailsToSpawn(rotationDelta) == rotationDelta \div AngularSpacing

AdvanceLastSpawn(lastSpawnRotation, trailsToSpawn) ==
  IF trailsToSpawn > 0 THEN lastSpawnRotation + trailsToSpawn * AngularSpacing
  ELSE lastSpawnRotation

SpawnTrails(ts, groundRotation) ==
  IF ~ts.isSpawning \/ ts.lastSpawnRotation = Null THEN ts
  ELSE LET rotationDelta == groundRotation - ts.lastSpawnRotation
           trailsToSpawn == TrailsToSpawn(rotationDelta)
       IN  [ ts EXCEPT !.trails = SpawnLoop(trailsToSpawn, ts, ts.trails),
                       !.live = @ + Max(0, trailsToSpawn),
                       !.lastSpawnRotation = AdvanceLastSpawn(@, trailsToSpawn) ]

\* the condition without the width class test of line 195
TrailMatches_AnyWidth(tr, t, rot) ==
  /\ t.clickable
  /\ tr.width # NaN
  /\ LET xDist == IF tr.x >= TilePosX(t) THEN tr.x - TilePosX(t) ELSE TilePosX(t) - tr.x
         bounds == GetZBounds(t, rot)
         trailInTile == TrailPosZ(tr, rot) >= bounds.back /\ TrailPosZ(tr, rot) <= bounds.front
         xOverlap == 2 * xDist < tr.width + t.TILE_WIDTH
     IN  trailInTile /\ xOverlap

\* the condition under which update() highlights trail tr on tile t
TrailMatches(tr, t, rot) ==
  /\ t.clickable
  /\ JsEq(tr.widthIndex, t.widthIndex)
  /\ LET xDist == IF tr.x >= TilePosX(t) THEN tr.x - TilePosX(t) ELSE TilePosX(t) - tr.x
         bounds == GetZBounds(t, rot)
         trailInTile == TrailPosZ(tr, rot) >= bounds.back /\ TrailPosZ(tr, rot) <= bounds.front
         xOverlap == 2 * xDist < tr.width + t.TILE_WIDTH
     IN  trailInTile /\ xOverlap

\* index of the first tile of tls, from j on, that the for-of loop stops at (0: none)
RECURSIVE FirstMatch(_, _, _, _)
FirstMatch(tr, tls, j, rot) ==
  IF j > Len(tls) THEN 0
  ELSE IF TrailMatches(tr, tls[j], rot) THEN j
  ELSE FirstMatch(tr, tls, j + 1, rot)

TrailExpired(tr) == tr.age * angularVelocity > TRAIL_LIFE_ANGLE

\* lines 184-214 without the "if (!trail.isHighlighted)" of line 188
TrailStep_NoHighlightTest(tr, tls, deltaTime, rot) ==
  LET aged == UpdateAge(tr, deltaTime)
      m == FirstMatch(aged, tls, 1, rot)
  IN  [ trail |-> IF m = 0 THEN aged
                  ELSE [ SetHighlighted(aged) EXCEPT !.covered = @ + 1 ],
        m |-> m ]

\* lines 184-214, the loop body for one trail: the trail afterwards and the
\* index m of the tile that took its coverage (0: none)
TrailStep(tr, tls, deltaTime, rot) ==
  LET aged == UpdateAge(tr, deltaTime)
      m == IF aged.isHighlighted THEN 0 ELSE FirstMatch(aged, tls, 1, rot)
  IN  [ trail |-> IF m = 0 THEN aged
                  ELSE [ SetHighlighted(aged) EXCEPT !.covered = @ + 1 ],
        m |-> m ]

\* line 210 for every trail of the index set I, highest index first
RECURSIVE CoverTile(_, _, _)
CoverTile(t, trs, I) ==
  IF I = {} THEN t
  ELSE LET i == CHOOSE k \in I : \A l \in I : l <= k
       IN  CoverTile(AddTrailCoverage(t, trs[i].x, trs[i].width, TRAIL_HEIGHT),
                     trs, I \ {i})

\* lines 216-221 without the splice of line 220
TrailKept_All(tr) == TRUE

\* lines 216-221: the trail stays in the list
TrailKept(tr) == ~TrailExpired(tr)

\* update(deltaTime, angularVelocity, tiles): [trailSpawner, tiles] afterwards.
\* An iteration writes only its own trail and the coverage area of the tile
\* it matched, and matching reads neither, so the iterations are taken
\* trail by trail and their coverage is added tile by tile.
TrailSpawnerUpdate(ts, deltaTime, tls, rot) ==
  LET n == Len(ts.trails)
      \* one step per trail, held as a tuple so that each is computed once
      st == <<>> \o [ i \in 1..n |-> TrailStep(ts.trails[i], tls, deltaTime, rot) ]
  IN  [ trailSpawner |->
          [ ts EXCEPT !.trails = SelectSeq([ i \in 1..n |-> st[i].trail ], TrailKept),
                      \* line 219: trail.dispose()
                      !.live = @ - Cardinality({ i \in 1..n : TrailExpired(st[i].trail) }) ],
        tiles |->
          [ j \in 1..Len(tls) |->
              CoverTile(tls[j], ts.trails, { i \in 1..n : st[i].m = j }) ] ]

\* reset() that drops the list without disposing its trails
TrailSpawnerReset_NoDispose(ts) ==
  [ ts EXCEPT !.trails = <<>>, !.lastSpawnRotation = Null, !.isSpawning = FALSE ]

TrailSpawnerReset(ts) ==
  [ ts EXCEPT !.live = @ - Len(ts.trails),  \* lines 226-228: dispose() of every trail
              !.trails = <<>>, !.lastSpawnRotation = Null, !.isSpawning = FALSE ]

(***************************************************************************)
(* InputHandler, src/src/input.js (src/unnamed/part_004 is the same        *)
(* handler with the pointer taken as a press whatever its pointerType)     *)
(***************************************************************************)
\* the constructor, input.js:8
NewInputHandler ==
  [ spacebarHeld |-> FALSE,
    \* history: onHitStart() calls made by keydown events since the last keyup
    keydownHitStarts |-> 0 ]

(***************************************************************************)
(* Game, src/src/game.js                                                   *)
(***************************************************************************)
\* what is known of a game before its first game over: nothing shown in the
\* game-over panel, no score or lives noted at a game-over transition
NewGameLog ==
  [ finalScore |-> Null, scoreAtGameOver |-> Null, livesAtGameOver |-> Null,
    \* tiles update() removed by age before checkPassedTarget() returned true for them
    unscoredDisposals |-> 0 ]

\* restart() hides the panel and leaves its text; the notes start afresh
RestartGameLog(log) ==
  [ NewGameLog EXCEPT !.finalScore = log.finalScore ]

\* the fields the tile loop of update() writes
GameFields ==
  [ score |-> score, lives |-> lives, highScore |-> highScore, gameOver |-> gameOver,
    triggerCalls |-> triggerCalls, onGameOverCalls |-> onGameOverCalls, missed |-> missed,
    liveTiles |-> liveTiles, log |-> gameLog ]

\* updateScore() without lines 281-283
UpdateScore_KeepsHighScore(g) == g

\* updateScore()
UpdateScore(g) == IF g.score > g.highScore THEN [g EXCEPT !.highScore = g.score] ELSE g

\* triggerGameOver(): sets the flag, fills the panel, hides the target; it makes
\* no call of this.onGameOver
TriggerGameOver(g) ==
  [ g EXCEPT !.gameOver = TRUE, !.triggerCalls = @ + 1,
             \* line 292: finalScoreElement.textContent = this.score
             !.log.finalScore = g.score,
             !.log.scoreAtGameOver = IF g.gameOver THEN @ ELSE g.score,
             !.log.livesAtGameOver = IF g.gameOver THEN @ ELSE g.lives ]

\* lines 177-188 with the game over raised one life early
ScoreTile_EarlyGameOver(g, tile) ==
  LET percent == GetCoveragePercent(tile)
      g1 == UpdateScore([g EXCEPT !.score = @ + Round(percent, tile.tileArea)])
  IN  IF percent < 50 * tile.tileArea
      THEN LET g2 == [g1 EXCEPT !.lives = @ - 1]
           IN  IF g2.lives <= 1 THEN TriggerGameOver(g2) ELSE g2
      ELSE g1

\* lines 177-180 alone: the score is taken, no life is
ScoreTile_NoLifeLost(g, tile) ==
  UpdateScore([g EXCEPT !.score = @ + Round(GetCoveragePercent(tile), tile.tileArea)])

\* lines 177-188: the body of "if (tile.checkPassedTarget())"
ScoreTile(g, tile) ==
  LET percent == GetCoveragePercent(tile)
      g1 == UpdateScore([g EXCEPT !.score = @ + Round(percent, tile.tileArea)])
  IN  IF percent < 50 * tile.tileArea
      THEN LET g2 == [g1 EXCEPT !.lives = @ - 1]
           IN  IF g2.lives <= 0 THEN TriggerGameOver(g2) ELSE g2
      ELSE g1

TileExpired(tile) == tile.age * angularVelocity > TILE_LIFE_ANGLE

\* lines 170-196: the body of the loop for the tile at index i
TileStep(i, tls, g, deltaTime, rot) ==
  LET c == CheckPassedTarget(UpdateAge(tls[i], deltaTime), rot)
      tile == IF c[2] THEN [ c[1] EXCEPT !.scored = @ + 1 ] ELSE c[1]
      low == c[2] /\ GetCoveragePercent(tile) < 50 * tile.tileArea
      g1 == IF c[2] THEN ScoreTile(g, tile) ELSE g
      g2 == IF low THEN [ g1 EXCEPT !.missed = @ + 1 ] ELSE g1
      \* line 194: tile.dispose()
      g3 == IF TileExpired(tile)
            THEN [ g2 EXCEPT !.liveTiles = @ - 1,
                             !.log.unscoredDisposals =
                                IF tile.hasPassedTarget THEN @ ELSE @ + 1 ]
            ELSE g2
      \* line 195: this.tiles.splice(i, 1)
      tls2 == IF TileExpired(tile)
              THEN SubSeq(tls, 1, i - 1) \o SubSeq(tls, i + 1, Len(tls))
              ELSE [ tls EXCEPT ![i] = tile ]
  IN  [ tiles |-> tls2, g |-> g3 ]

\* lines 169-197: the loop over the tiles from index i down to 1 (each step is
\* evaluated once, as the member of a one-element set, before the next is taken)
RECURSIVE TileLoop(_, _, _, _, _)
TileLoop(i, tls, g, deltaTime, rot) ==
  IF i = 0 THEN [ tiles |-> tls, g |-> g ]
  ELSE CHOOSE r \in { TileLoop(i - 1, v.tiles, v.g, deltaTime, rot) :
                        v \in { TileStep(i, tls, g, deltaTime, rot) } } : TRUE

\* one more input operation or short frame, within the bound
Event == events < MaxEvents /\ events' = events + 1

\* line 145 without the paused test
Halted_GameOverOnly == gameOver

\* line 145: update() returns after the rotation step
Halted == gameOver \/ paused

\* line 143 with the sign reversed
Rotate_Backwards(rot, deltaTime) == rot - angularVelocity * deltaTime

\* the ground rotation after line 143
Rotate(rot, deltaTime) == rot + angularVelocity * deltaTime

\* lines 154-160: updateSpawnPosition while hitting, then spawnTrails
EmitTrails(rot) ==
  SpawnTrails(IF isHitting THEN UpdateSpawnPosition(trailSpawner, targetX, targetWidthIndex)
              ELSE trailSpawner, rot)

\* length of the trail list after spawnTrails at rotation rot, before update() prunes it
TrailsAfterSpawn(rot) ==
  Len(trailSpawner.trails)
    + (IF ~trailSpawner.isSpawning \/ trailSpawner.lastSpawnRotation = Null THEN 0
       ELSE TrailsToSpawn(rot - trailSpawner.lastSpawnRotation))

\* lines 148-197 with the trails evaluated before the new tile is pushed
PlayFrame_SpawnAfterTrails(deltaTime, kind, rot) ==
  LET sp == TileSpawnerUpdate(spawner, deltaTime, kind)
      ts2 == EmitTrails(rot)
      tr == TrailSpawnerUpdate(ts2, deltaTime, tiles, rot)
      tiles1 == IF sp.spawned THEN Append(tr.tiles, sp.tile) ELSE tr.tiles
      g0 == IF sp.spawned THEN [ GameFields EXCEPT !.liveTiles = @ + 1 ] ELSE GameFields
      tl == TileLoop(Len(tiles1), tiles1, g0, deltaTime, rot)
  IN  [ spawner |-> sp.spawner, trailSpawner |-> tr.trailSpawner, tiles |-> tl.tiles,
        g |-> tl.g ]

\* lines 148-197, the part of update() after the paused / game-over return
\* (the trail pass is evaluated once, before the tile loop reads its result)
PlayFrame(deltaTime, kind, rot) ==
  LET sp == TileSpawnerUpdate(spawner, deltaTime, kind)
      tiles1 == IF sp.spawned THEN Append(tiles, sp.tile) ELSE tiles
      ts2 == EmitTrails(rot)
      tr == TrailSpawnerUpdate(ts2, deltaTime, tiles1, rot)
      g0 == IF sp.spawned THEN [ GameFields EXCEPT !.liveTiles = @ + 1 ] ELSE GameFields
  IN  CHOOSE f \in UNION { { [ spawner |-> sp.spawner, trailSpawner |-> u.trailSpawner,
                               tiles |-> tl.tiles, g |-> tl.g ] :
                               tl \in { TileLoop(Len(u.tiles), u.tiles, g0, deltaTime, rot) } } :
                             u \in { tr } } : TRUE

\* the kinds the Tile constructor can draw in a frame of deltaTime: all of them
\* when the spawner is going to spawn, one (never used) when it is not
DrawnKinds(deltaTime) ==
  IF ~Halted /\ TileSpawnerUpdate(spawner, deltaTime, <<0, 0, 2>>).spawned
  THEN TileKinds
  ELSE { <<0, 0, 2>> }

\* update() with deltaTime seconds since the last frame
UpdateFrame(deltaTime, kind) ==
  /\ rotation' = Rotate(rotation, deltaTime)
  /\ IF Halted
     THEN UNCHANGED <<tiles, score, lives, highScore, gameOver, spawner, trailSpawner,
                      triggerCalls, onGameOverCalls, missed, liveTiles, gameLog>>
     ELSE /\ TrailsAfterSpawn(rotation') <= MaxTrails
          /\ \E f \in {PlayFrame(deltaTime, kind, rotation')} :
              /\ spawner' = f.spawner
              /\ trailSpawner' = f.trailSpawner
              /\ tiles' = f.tiles
              /\ score' = f.g.score
              /\ lives' = f.g.lives
              /\ highScore' = f.g.highScore
              /\ gameOver' = f.g.gameOver
              /\ triggerCalls' = f.g.triggerCalls
              /\ onGameOverCalls' = f.g.onGameOverCalls
              /\ missed' = f.g.missed
              /\ liveTiles' = f.g.liveTiles
              /\ gameLog' = f.g.log
  /\ UNCHANGED <<paused, isHitting, targetX, targetWidthIndex, fixedSpawners,
                 inputHandler, others>>

Update(deltaTime, kind) ==
  /\ Rotate(rotation, deltaTime) <= angularVelocity * MaxSeconds
  /\ IF deltaTime = NominalFrame THEN UNCHANGED events ELSE Event
  /\ UpdateFrame(deltaTime, kind)

\* moveTargetZone(x) without the clamp of line 203
MoveTargetZone_NoClamp(x) ==
  /\ Event
  /\ targetX' = x
  /\ UNCHANGED <<rotation, tiles, score, lives, highScore, gameOver, paused, isHitting,
                 targetWidthIndex, spawner, trailSpawner,
                 triggerCalls, onGameOverCalls, missed, liveTiles, fixedSpawners, gameLog, inputHandler, others>>

MoveTargetZone(x) ==
  /\ Event
  /\ targetX' = Max(-TARGET_X_LIMIT, Min(TARGET_X_LIMIT, x))
  /\ UNCHANGED <<rotation, tiles, score, lives, highScore, gameOver, paused, isHitting,
                 targetWidthIndex, spawner, trailSpawner,
                 triggerCalls, onGameOverCalls, missed, liveTiles, fixedSpawners, gameLog, inputHandler, others>>

\* the InputHandler, which calls it, is written by the caller alone
OnHitStart ==
  /\ Event
  /\ isHitting' = TRUE
  /\ trailSpawner' = StartSpawning(trailSpawner, targetX, targetWidthIndex, rotation)
  /\ UNCHANGED <<rotation, tiles, score, lives, highScore, gameOver, paused,
                 targetX, targetWidthIndex, spawner,
                 triggerCalls, onGameOverCalls, missed, liveTiles, fixedSpawners,
                 gameLog, others>>

\* the InputHandler, which calls it, is written by the caller alone
OnHitEnd ==
  /\ Event
  /\ isHitting' = FALSE
  /\ trailSpawner' = StopSpawning(trailSpawner)
  /\ UNCHANGED <<rotation, tiles, score, lives, highScore, gameOver, paused,
                 targetX, targetWidthIndex, spawner,
                 triggerCalls, onGameOverCalls, missed, liveTiles, fixedSpawners,
                 gameLog, others>>

SetTargetWidthIndex(index) ==
  /\ Event
  /\ IF JsLt(index, 0) \/ JsGe(index, Len(TILE_WIDTHS)) THEN UNCHANGED targetWidthIndex
     ELSE IF isHitting THEN UNCHANGED targetWidthIndex
     \* lines 354-361; with index = NaN createTargetZone() then throws on
     \* WIDTH_COLORS[NaN].r, after the old mesh, which keeps its x, is disposed
     ELSE targetWidthIndex' = index
  /\ UNCHANGED <<rotation, tiles, score, lives, highScore, gameOver, paused, isHitting,
                 targetX, spawner, trailSpawner, triggerCalls, onGameOverCalls, missed, liveTiles, fixedSpawners, gameLog, inputHandler, others>>

SetPaused(p) ==
  /\ Event
  /\ paused' = p
  /\ UNCHANGED <<rotation, tiles, score, lives, highScore, gameOver, isHitting,
                 targetX, targetWidthIndex, spawner, trailSpawner,
                 triggerCalls, onGameOverCalls, missed, liveTiles, fixedSpawners, gameLog, inputHandler, others>>

\* setTargetVisible(visible): enables or disables the target zone and beam
\* line meshes, which the model does not carry
SetTargetVisible(visible) ==
  /\ Event
  /\ UNCHANGED <<rotation, tiles, score, lives, highScore, gameOver, paused, isHitting,
                 targetX, targetWidthIndex, spawner, trailSpawner,
                 triggerCalls, onGameOverCalls, missed, liveTiles, fixedSpawners, gameLog, inputHandler, others>>

\* startGame() that clears the track as restart() does
StartGame_ClearsTiles ==
  /\ Event
  /\ spawner' = SyncToRotation(spawner, rotation)
  /\ paused' = FALSE
  /\ tiles' = <<>>
  /\ liveTiles' = liveTiles - Len(tiles)
  /\ UNCHANGED <<rotation, score, lives, highScore, gameOver, isHitting,
                 targetX, targetWidthIndex, trailSpawner,
                 triggerCalls, onGameOverCalls, missed, fixedSpawners, gameLog, inputHandler, others>>

\* startGame() that also clears gameOver
StartGame_ClearsGameOver ==
  /\ Event
  /\ spawner' = SyncToRotation(spawner, rotation)
  /\ paused' = FALSE
  /\ gameOver' = FALSE
  /\ UNCHANGED <<rotation, tiles, score, lives, highScore, isHitting,
                 targetX, targetWidthIndex, trailSpawner,
                 triggerCalls, onGameOverCalls, missed, liveTiles, fixedSpawners, gameLog, inputHandler, others>>

StartGame ==
  /\ Event
  /\ spawner' = SyncToRotation(spawner, rotation)
  /\ paused' = FALSE
  /\ UNCHANGED <<rotation, tiles, score, lives, highScore, gameOver, isHitting,
                 targetX, targetWidthIndex, trailSpawner,
                 triggerCalls, onGameOverCalls, missed, liveTiles, fixedSpawners, gameLog, inputHandler, others>>

Restart ==
  /\ liveTiles' = liveTiles - Len(tiles)      \* lines 300-302: dispose() of every tile
  /\ tiles' = <<>>
  /\ score' = 0
  /\ lives' = INITIAL_LIVES
  /\ gameOver' = FALSE
  /\ isHitting' = FALSE
  /\ paused' = FALSE
  /\ highScore' = UpdateScore([score |-> 0, highScore |-> highScore]).highScore
  /\ targetWidthIndex' = 0
  /\ targetX' = 0
  /\ Event
  /\ rotation' = 0
  /\ spawner' = TileSpawnerReset(spawner)
  /\ trailSpawner' = TrailSpawnerReset(trailSpawner)
  /\ triggerCalls' = 0
  /\ onGameOverCalls' = 0
  /\ missed' = 0
  /\ gameLog' = RestartGameLog(gameLog)
  /\ UNCHANGED <<fixedSpawners, inputHandler, others>>

InitGame ==
  /\ rotation = 0
  /\ tiles = <<>>
  /\ spawner = NewTileSpawner
  /\ trailSpawner = NewTrailSpawner
  /\ score = 0
  /\ lives = INITIAL_LIVES
  /\ gameOver = FALSE
  /\ isHitting = FALSE
  \* false as the Game constructor leaves it, or true after main.js:62
  \* (setPaused(true), the start menu)
  /\ paused \in BOOLEAN
  /\ targetWidthIndex = 0
  /\ targetX = 0
  /\ events = 0
  /\ highScore = 0
  /\ triggerCalls = 0
  /\ onGameOverCalls = 0
  /\ missed = 0
  /\ liveTiles = 0
  /\ gameLog = NewGameLog
  /\ fixedSpawners = << NewFixedSpawner, NewFixedSpawner >>
  /\ inputHandler = NewInputHandler

Init ==
  /\ InitGame
  /\ hitTile = NewHitTile(4)
  /\ placed = NoPlacement
  /\ leaderboard = NewLeaderboard

Next ==
  \/ \E deltaTime \in DeltaTimes : \E kind \in DrawnKinds(deltaTime) : Update(deltaTime, kind)
  \/ \E x \in TargetInputs : MoveTargetZone(x)
  \/ OnHitStart /\ UNCHANGED inputHandler
  \/ OnHitEnd /\ UNCHANGED inputHandler
  \/ \E index \in WidthInputs : SetTargetWidthIndex(index)
  \/ \E p \in BOOLEAN : SetPaused(p)
  \/ \E visible \in BOOLEAN : SetTargetVisible(visible)
  \/ StartGame
  \/ Restart

Spec == Init /\ [][Next]_vars

(***************************************************************************)
(* The ramped TileSpawner driven on its own: update() called with any      *)
(* sequence of deltaTime values, through and past the ramp.                *)
(***************************************************************************)
SpawnerDeltas == {1, 2}

TileSpawnerTick(deltaTime, kind) ==
  /\ spawner.gameTime + deltaTime <= MaxGameTime
  /\ spawner' = TileSpawnerUpdate(spawner, deltaTime, kind).spawner
  /\ UNCHANGED <<rotation, tiles, score, lives, highScore, gameOver, paused, isHitting,
                 targetX, targetWidthIndex, trailSpawner, events,
                 triggerCalls, onGameOverCalls, missed, liveTiles, fixedSpawners, gameLog, inputHandler, others>>

SpawnerNext == \E deltaTime \in SpawnerDeltas, kind \in TileKinds : TileSpawnerTick(deltaTime, kind)

SpawnerSpec == Init /\ [][SpawnerNext]_vars

(***************************************************************************)
(* Two fixed-interval TileSpawner instances, each fed its own sequence of  *)
(* deltaTime values (in half seconds).                                     *)
(***************************************************************************)
FixedDeltas == {1, 2, 3}

FixedSpawnerTick(i, deltaTime) ==
  /\ fixedSpawners[i].elapsed + deltaTime <= MaxFixedTime
  /\ fixedSpawners' = [ fixedSpawners EXCEPT ![i] = FixedSpawnerUpdate(@, deltaTime) ]
  /\ UNCHANGED <<rotation, tiles, score, lives, highScore, gameOver, paused, isHitting,
                 targetX, targetWidthIndex, spawner, trailSpawner, events,
                 triggerCalls, onGameOverCalls, missed, liveTiles, gameLog, inputHandler, others>>

FixedNext == \E i \in {1, 2}, deltaTime \in FixedDeltas : FixedSpawnerTick(i, deltaTime)

FixedSpec == Init /\ [][FixedNext]_vars

(***************************************************************************)
(* The Game around startGame(): frames of one or two seconds, in the menu  *)
(* (paused) or in play, with startGame() and setPaused() at any point.     *)
(***************************************************************************)
StartDeltas == {1, 2}

StartFrame(deltaTime, kind) ==
  /\ Rotate(rotation, deltaTime) <= angularVelocity * MaxStartSeconds
  /\ UpdateFrame(deltaTime, kind)
  /\ UNCHANGED events

StartNext ==
  \/ \E deltaTime \in StartDeltas : \E kind \in DrawnKinds(deltaTime) :
        StartFrame(deltaTime, kind)
  \/ \E p \in BOOLEAN : SetPaused(p)
  \/ StartGame

StartSpec == Init /\ [][StartNext]_vars

(***************************************************************************)
(* The Game in play with the render loop running and no input at all:      *)
(* every frame calls update() with a deltaTime of one or five seconds.      *)
(***************************************************************************)
IdleDeltas == {1, 5}

IdleInit == Init /\ ~paused

IdleFrame(deltaTime, kind) ==
  /\ Rotate(rotation, deltaTime) <= angularVelocity * MaxIdleSeconds
  /\ UpdateFrame(deltaTime, kind)
  /\ UNCHANGED events

IdleNext ==
  \E deltaTime \in IdleDeltas : \E kind \in DrawnKinds(deltaTime) : IdleFrame(deltaTime, kind)

\* engine.runRenderLoop (main.js:182-185) calls update() again and again
IdleSpec == IdleInit /\ [][IdleNext]_vars /\ WF_vars(IdleNext)

(***************************************************************************)
(* The Game driven through the InputHandler: Space keydown (auto-repeat    *)
(* included) and keyup, pointer down and up, with restart() and frames in  *)
(* between.                                                                *)
(***************************************************************************)
PointerTypes == {"touch", "mouse"}

\* an input event that calls nothing
Ignored ==
  /\ Event
  /\ UNCHANGED <<rotation, tiles, score, lives, highScore, gameOver, paused, isHitting,
                 targetX, targetWidthIndex, spawner, trailSpawner,
                 triggerCalls, onGameOverCalls, missed, liveTiles, fixedSpawners,
                 gameLog, inputHandler, others>>

\* input.js:43-49, the keydown listener for event.code = 'Space'
KeyDownSpace ==
  IF ~inputHandler.spacebarHeld
  THEN /\ inputHandler' = [ inputHandler EXCEPT !.spacebarHeld = TRUE,
                                                !.keydownHitStarts = @ + 1 ]
       /\ OnHitStart
  ELSE Ignored

\* input.js:51-57, the keyup listener for event.code = 'Space'
KeyUpSpace ==
  /\ inputHandler' = [ inputHandler EXCEPT !.spacebarHeld = FALSE,
                                           !.keydownHitStarts = 0 ]
  /\ OnHitEnd

\* input.js:28-33, scene.onPointerDown
PointerDown(pointerType) ==
  IF pointerType = "touch"
  THEN /\ inputHandler' = [ inputHandler EXCEPT !.spacebarHeld = TRUE ]
       /\ OnHitStart
  ELSE Ignored

\* input.js:35-40, scene.onPointerUp
PointerUp(pointerType) ==
  IF pointerType = "touch"
  THEN /\ inputHandler' = [ inputHandler EXCEPT !.spacebarHeld = FALSE ]
       /\ OnHitEnd
  ELSE Ignored

InputNext ==
  \/ KeyDownSpace
  \/ KeyUpSpace
  \/ \E pointerType \in PointerTypes : PointerDown(pointerType)
  \/ \E pointerType \in PointerTypes : PointerUp(pointerType)
  \/ Restart
  \/ \E deltaTime \in StartDeltas : \E kind \in DrawnKinds(deltaTime) :
        StartFrame(deltaTime, kind)

InputSpec == Init /\ [][InputNext]_vars

(***************************************************************************)
(* One hold-to-hit Tile under any sequence of startHit, updateHit and      *)
(* stopHit calls, and the dispose() its owner calls once when it removes   *)
(* the tile.                                                               *)
(***************************************************************************)
HitInit ==
  /\ InitGame
  /\ ~paused
  /\ hitTile \in { NewHitTile(depth) : depth \in HitDepths }
  /\ placed = NoPlacement
  /\ leaderboard = NewLeaderboard

HitStart ==
  /\ ~hitTile.disposed
  /\ hitTile' = StartHit(hitTile)
  /\ UNCHANGED <<rotation, tiles, score, lives, highScore, gameOver, paused, isHitting,
                 targetX, targetWidthIndex, spawner, trailSpawner, events,
                 triggerCalls, onGameOverCalls, missed, liveTiles, fixedSpawners,
                 gameLog, inputHandler, placed, leaderboard>>

HitUpdate(deltaTime) ==
  /\ ~hitTile.disposed
  /\ hitTile' = UpdateHit(hitTile, deltaTime, tileSpeed)
  /\ UNCHANGED <<rotation, tiles, score, lives, highScore, gameOver, paused, isHitting,
                 targetX, targetWidthIndex, spawner, trailSpawner, events,
                 triggerCalls, onGameOverCalls, missed, liveTiles, fixedSpawners,
                 gameLog, inputHandler, placed, leaderboard>>

HitStop ==
  /\ ~hitTile.disposed
  /\ hitTile' = StopHit(hitTile)
  /\ UNCHANGED <<rotation, tiles, score, lives, highScore, gameOver, paused, isHitting,
                 targetX, targetWidthIndex, spawner, trailSpawner, events,
                 triggerCalls, onGameOverCalls, missed, liveTiles, fixedSpawners,
                 gameLog, inputHandler, placed, leaderboard>>

HitDispose ==
  /\ ~hitTile.disposed
  /\ hitTile' = DisposeHitTile(hitTile)
  /\ UNCHANGED <<rotation, tiles, score, lives, highScore, gameOver, paused, isHitting,
                 targetX, targetWidthIndex, spawner, trailSpawner, events,
                 triggerCalls, onGameOverCalls, missed, liveTiles, fixedSpawners,
                 gameLog, inputHandler, placed, leaderboard>>

HitNext ==
  \/ HitStart
  \/ \E deltaTime \in HitDeltas : HitUpdate(deltaTime)
  \/ HitStop
  \/ HitDispose

HitSpec == HitInit /\ [][HitNext]_vars

(***************************************************************************)
(* The two createMesh() placements, for any lane and any angle of a turn   *)
(* of the ground.                                                          *)
(***************************************************************************)
\* spawn angles and trail angles, in 1/10000 rad: every 7.5 degrees
PlaceAngles == { 1309 * k : k \in 0..48 }
\* x of a trail, in hundredths: the target range [-3, 3] less the 0.3 offset
PlaceXs == { -330, -150, -75, -30, 0, 75, 150, 270 }

PlaceTile(column, spawnTheta) ==
  /\ placed' = TileCreateMesh(column, spawnTheta)
  /\ UNCHANGED <<rotation, tiles, score, lives, highScore, gameOver, paused, isHitting,
                 targetX, targetWidthIndex, spawner, trailSpawner, events,
                 triggerCalls, onGameOverCalls, missed, liveTiles, fixedSpawners,
                 gameLog, inputHandler, hitTile, leaderboard>>

PlaceTrail(x, theta) ==
  /\ placed' = TrailCreateMesh(x, theta)
  /\ UNCHANGED <<rotation, tiles, score, lives, highScore, gameOver, paused, isHitting,
                 targetX, targetWidthIndex, spawner, trailSpawner, events,
                 triggerCalls, onGameOverCalls, missed, liveTiles, fixedSpawners,
                 gameLog, inputHandler, hitTile, leaderboard>>

PlaceNext ==
  \/ \E column \in 0..(Len(COLUMN_POSITIONS) - 1), spawnTheta \in PlaceAngles :
        PlaceTile(column, spawnTheta)
  \/ \E x \in PlaceXs, theta \in PlaceAngles : PlaceTrail(x, theta)

PlaceInit == Init /\ ~paused

PlaceSpec == PlaceInit /\ [][PlaceNext]_vars

(***************************************************************************)
(* An OnlineLeaderboard: init() (createLeaderboard calls it at once),      *)
(* the settling of _doInit(), and submitScore() with any name and score,   *)
(* before or after.                                                        *)
(***************************************************************************)
\* n times the character c
Repeat(c, n) == [ i \in 1..n |-> c ]

NameInputs ==
  { <<>>, <<"R", "2">>, <<" ", "R", "2", " ">>, <<" ">>, <<"R", "_", "2">>,
    Repeat("a", NAME_MAX), Repeat("a", NAME_MAX + 1) }
ScoreInputs == { -1, 0, 100, MAX_VALID_SCORE, MAX_VALID_SCORE + 1, NaN }

BoardInit ==
  /\ leaderboard' = LeaderboardInit(leaderboard)
  /\ UNCHANGED <<rotation, tiles, score, lives, highScore, gameOver, paused, isHitting,
                 targetX, targetWidthIndex, spawner, trailSpawner, events,
                 triggerCalls, onGameOverCalls, missed, liveTiles, fixedSpawners,
                 gameLog, inputHandler, hitTile, placed>>

BoardInitSettled(loaded) ==
  /\ leaderboard.initPending
  /\ leaderboard' = DoInitSettled(leaderboard, loaded)
  /\ UNCHANGED <<rotation, tiles, score, lives, highScore, gameOver, paused, isHitting,
                 targetX, targetWidthIndex, spawner, trailSpawner, events,
                 triggerCalls, onGameOverCalls, missed, liveTiles, fixedSpawners,
                 gameLog, inputHandler, hitTile, placed>>

BoardSubmit(name, points, delivered) ==
  /\ leaderboard.pushCalls < MaxSubmits
  /\ leaderboard' = SubmitScore(leaderboard, name, points, delivered)
  /\ UNCHANGED <<rotation, tiles, score, lives, highScore, gameOver, paused, isHitting,
                 targetX, targetWidthIndex, spawner, trailSpawner, events,
                 triggerCalls, onGameOverCalls, missed, liveTiles, fixedSpawners,
                 gameLog, inputHandler, hitTile, placed>>

BoardNext ==
  \/ BoardInit
  \/ \E loaded \in BOOLEAN : BoardInitSettled(loaded)
  \/ \E name \in NameInputs, points \in ScoreInputs, delivered \in BOOLEAN :
        BoardSubmit(name, points, delivered)

BoardInitial == Init /\ ~paused

BoardSpec == BoardInitial /\ [][BoardNext]_vars

(***************************************************************************)
(* Properties                                                              *)
(***************************************************************************)
\* a step of update() that ran the gameplay part
PlayingFrame == ~paused /\ ~gameOver /\ rotation' > rotation

\* a step of update() taken while paused or after the game is over
HaltedFrame == (paused \/ gameOver) /\ rotation' > rotation

C1_TileInv ==
  \A i \in 1..Len(tiles) :
    /\ tiles[i].passes <= 1
    /\ tiles[i].scored = tiles[i].passes
    /\ tiles[i].passes = 1 <=> tiles[i].hasPassedTarget
    /\ tiles[i].hasPassedTarget => GetZBounds(tiles[i], rotation).back > 0

\* C1: checkPassedTarget() returns true at most once for a tile, and it has
\* returned true for exactly the tiles whose back edge is past the scoring
\* plane at the end of a gameplay frame (so the true comes on the first call
\* after the edge has passed, false before and after); update() adds a tile
\* to the score as often as checkPassedTarget() returned true, at most once.
C1_PassedExactlyOnce ==
  /\ []C1_TileInv
  /\ [][ PlayingFrame =>
           \A i \in 1..Len(tiles') :
             tiles'[i].passes = 1 <=> GetZBounds(tiles'[i], rotation').back > 0 ]_vars

\* a tile that has passed, and was scored, is still in the list
C1_Witness ==
  \E i \in 1..Len(tiles) : tiles[i].passes = 1 /\ tiles[i].scored = 1 /\ score > 0

\* C2: an update() while paused or game over adds angularVelocity * deltaTime
\* to the rotation and leaves tiles, trails, both spawners, score, lives and
\* every other field unchanged.
C2_HaltedFrameOnlyRotates ==
  [][ HaltedFrame =>
        /\ \E d \in DeltaTimes : rotation' = rotation + angularVelocity * d
        /\ UNCHANGED <<tiles, trailSpawner, spawner, score, lives, highScore, gameOver,
                       paused, isHitting, targetX, targetWidthIndex, missed,
                       liveTiles>> ]_vars

\* paused while the player holds, with tiles on the track, and the ground has
\* turned a full trail spacing past the spawn origin without a trail emitted
C2_Witness ==
  /\ paused /\ ~gameOver
  /\ tiles # <<>>
  /\ trailSpawner.isSpawning
  /\ trailSpawner.lastSpawnRotation # Null
  /\ rotation - trailSpawner.lastSpawnRotation >= AngularSpacing

\* C3: lives is 3 less the number of tiles that passed below 50 percent (a
\* tile at 50 percent or more costs nothing), and gameOver is true exactly
\* from the third such tile on.
C3_LivesAndGameOver ==
  /\ lives = INITIAL_LIVES - missed
  /\ gameOver <=> missed >= INITIAL_LIVES

\* the game is over on the third miss, after a tile that scored cost no life
C3_Witness == gameOver /\ missed = INITIAL_LIVES /\ lives = 0

\* C4: whenever the game is over, the onGameOver callback has been invoked
\* exactly once since the game was last (re)started.
C4_OnGameOverInvokedOnce == gameOver => onGameOverCalls = 1

\* C5: gameOver, once true, stays true in every step but restart(); it is
\* entered only by a gameplay frame; and a step taken while paused or game
\* over, restart() aside, spawns no tile, emits no trail, adds no coverage
\* and changes neither score nor lives nor the spawner's clocks.
C5_StateMachine ==
  [][ /\ (gameOver /\ ~Restart) => gameOver'
      /\ (~gameOver /\ gameOver') => PlayingFrame
      /\ ((paused \/ gameOver) /\ ~Restart) =>
            /\ UNCHANGED <<tiles, score, lives>>
            /\ trailSpawner'.trails = trailSpawner.trails
            /\ spawner'.gameTime = spawner.gameTime
            /\ spawner'.timeSinceLastSpawn = spawner.timeSinceLastSpawn ]_vars

\* the player has pressed after the frame that ended the game (spawning is
\* on, from the current rotation, with no trail emitted), and the game is
\* still over
C5_Witness ==
  /\ gameOver
  /\ missed = INITIAL_LIVES
  /\ trailSpawner.isSpawning
  /\ trailSpawner.lastSpawnRotation = rotation
  /\ trailSpawner.trails = <<>>

\* C6: addTrailCoverage has been called at most once for every trail, and
\* exactly for the highlighted ones.
C6_TrailCoversOnce ==
  \A i \in 1..Len(trailSpawner.trails) :
    /\ trailSpawner.trails[i].covered <= 1
    /\ trailSpawner.trails[i].covered = 1 <=> trailSpawner.trails[i].isHighlighted

\* a highlighted trail that covered its tile in an earlier frame has gone
\* through the scan of a later frame
C6_Witness ==
  \E i \in 1..Len(trailSpawner.trails) :
    /\ trailSpawner.trails[i].isHighlighted
    /\ trailSpawner.trails[i].covered = 1
    /\ trailSpawner.trails[i].age \notin DeltaTimes

\* C7: coveragePercent (kept as percent * tileArea) is within [0, 100]; it is
\* 0 until the tile has passed and min(100, 100 * totalCoverageArea / tileArea)
\* afterwards.
C7_CoveragePercentClamped ==
  \A i \in 1..Len(tiles) :
    /\ 0 <= tiles[i].coveragePercent
    /\ tiles[i].coveragePercent <= 100 * tiles[i].tileArea
    /\ ~tiles[i].hasPassedTarget => tiles[i].coveragePercent = 0
    /\ tiles[i].hasPassedTarget =>
         tiles[i].coveragePercent
           = Min(100 * tiles[i].tileArea, 100 * tiles[i].totalCoverageArea)

\* a passed tile whose accumulated overlap area exceeds its own area
C7_Witness ==
  \E i \in 1..Len(tiles) :
    /\ tiles[i].hasPassedTarget
    /\ tiles[i].totalCoverageArea > tiles[i].tileArea
    /\ tiles[i].coveragePercent = 100 * tiles[i].tileArea

\* trails of the list that outlive a frame of deltaTime seconds
KeptTrails(deltaTime) ==
  Cardinality({ i \in 1..Len(trailSpawner.trails) :
                 (trailSpawner.trails[i].age + deltaTime) * angularVelocity
                   <= TRAIL_LIFE_ANGLE })

\* C8: in a gameplay frame with spawning active, with R = rotation' less the
\* spawn origin and S the spacing, the n trails appended satisfy
\* n*S <= R < (n+1)*S (n = floor(R/S)), sit at origin + k*S for k = 1..n, and
\* the origin advances by n*S, leaving the remainder R - n*S in [0, S).
C8_SpawnTrailsCadence ==
  [][ (PlayingFrame /\ trailSpawner.isSpawning /\ trailSpawner.lastSpawnRotation # Null) =>
        LET last == trailSpawner.lastSpawnRotation
            R == rotation' - last
            kept == KeptTrails((rotation' - rotation) \div angularVelocity)
            n == Len(trailSpawner'.trails) - kept
        IN  /\ n >= 0
            /\ n * AngularSpacing <= R
            /\ R < (n + 1) * AngularSpacing
            /\ \A k \in 1..n :
                 trailSpawner'.trails[kept + k].spawnRotation = last + k * AngularSpacing
            /\ trailSpawner'.lastSpawnRotation = last + n * AngularSpacing
            /\ rotation' - trailSpawner'.lastSpawnRotation = R - n * AngularSpacing ]_vars

\* two frames emitted in a row: the second started from a carried remainder
\* and emitted one trail more than the first
C8_Witness ==
  /\ trailSpawner.isSpawning
  /\ Len(trailSpawner.trails) = 25
  /\ trailSpawner.lastSpawnRotation = rotation
  /\ \E k \in 1..Len(trailSpawner.trails) : trailSpawner.trails[k].age = 2 * NominalFrame

\* C9 (under FixedSpec): two fixed-interval spawners that have been given the
\* same total elapsed time have emitted the same number of tiles.
C9_FrameRateIndependent ==
  fixedSpawners[1].elapsed = fixedSpawners[2].elapsed
    => fixedSpawners[1].emitted = fixedSpawners[2].emitted

\* C10 (under SpawnerSpec): getSpawnInterval (times rampDuration) is
\* startInterval at gameTime 0, minInterval from rampDuration on, no larger
\* than at any earlier time, and within [minInterval, startInterval], so
\* positive, at every gameTime update() reaches.
C10_SpawnIntervalRamp ==
  LET now == GetSpawnInterval(spawner.gameTime)
  IN  /\ GetSpawnInterval(0) = startInterval * rampDuration
      /\ spawner.gameTime >= rampDuration => now = minInterval * rampDuration
      /\ \A t \in 0..spawner.gameTime : GetSpawnInterval(t) >= now
      /\ minInterval * rampDuration <= now
      /\ now <= startInterval * rampDuration
      /\ now > 0

\* the spawner has run past the end of the ramp and has spawned on the way
C10_Witness ==
  /\ spawner.gameTime > rampDuration
  /\ spawner.currentSpawnTheta > 0
  /\ GetSpawnInterval(spawner.gameTime) = minInterval * rampDuration

\* C11: setTargetWidthIndex(index) leaves the width class and the target x
\* unchanged whenever index is not one of 0, 1, 2 or the player is hitting.
C11_InvalidIndexIgnored ==
  [][ \A index \in WidthInputs :
        (SetTargetWidthIndex(index)
           /\ (index \notin 0..(Len(TILE_WIDTHS) - 1) \/ isHitting))
          => UNCHANGED <<targetWidthIndex, targetX>> ]_vars

\* C12: after restart(), from any state, the tile list and the trail list are
\* empty and every tile and trail that was constructed has been disposed,
\* score = 0, lives = 3, gameOver, paused and isHitting are false, the rotation
\* is 0, the TileSpawner has currentSpawnTheta = timeSinceLastSpawn = gameTime
\* = 0, and the TrailSpawner is not spawning and has no origin.
C12_RestartResets ==
  [][ Restart =>
        /\ tiles' = <<>> /\ liveTiles' = 0
        /\ trailSpawner'.trails = <<>> /\ trailSpawner'.live = 0
        /\ score' = 0 /\ lives' = 3
        /\ ~gameOver' /\ ~paused' /\ ~isHitting'
        /\ rotation' = 0
        /\ spawner'.currentSpawnTheta = 0
        /\ spawner'.timeSinceLastSpawn = 0
        /\ spawner'.gameTime = 0
        /\ ~trailSpawner'.isSpawning
        /\ trailSpawner'.lastSpawnRotation = Null ]_vars

\* the state restart() leaves after a game in which the player covered a tile
C12_Witness ==
  /\ rotation = 0 /\ score = 0 /\ highScore > 0
  /\ tiles = <<>> /\ trailSpawner.trails = <<>>
  /\ ~gameOver /\ ~paused /\ ~isHitting

\* the trail lies over the tile when the ground is at rot: same width class,
\* z within the tile's [back, front], x centres closer than half the sum of
\* the widths
LiesOver(tr, t, rot) ==
  /\ tr.widthIndex \in 0..(Len(TILE_WIDTHS) - 1)
  /\ tr.widthIndex = t.widthIndex
  /\ rot - tr.spawnRotation >= rot - t.spawnTheta - TILE_LEAD - (t.TILE_DEPTH * UNITS_PER_WORLD) \div 2
  /\ rot - tr.spawnRotation <= rot - t.spawnTheta - TILE_LEAD + (t.TILE_DEPTH * UNITS_PER_WORLD) \div 2
  /\ 2 * tr.x - 2 * COLUMN_POSITIONS[t.column + 1] < TILE_WIDTHS[tr.widthIndex + 1] + t.TILE_WIDTH
  /\ 2 * COLUMN_POSITIONS[t.column + 1] - 2 * tr.x < TILE_WIDTHS[tr.widthIndex + 1] + t.TILE_WIDTH

\* width of the intersection of the x extents of tile and trail
XIntersection(tr, t) ==
  Cardinality({ p \in (COLUMN_POSITIONS[t.column + 1] - t.TILE_WIDTH \div 2)
                       .. (COLUMN_POSITIONS[t.column + 1] + t.TILE_WIDTH \div 2 - 1) :
                 /\ p >= tr.x - TILE_WIDTHS[tr.widthIndex + 1] \div 2
                 /\ p + 1 <= tr.x + TILE_WIDTHS[tr.widthIndex + 1] \div 2 })

\* in the step, tiles'[i] was in the list and clickable when update() scanned
\* the trails: it was spawned in this frame, or it was there and had not passed
ScannedClickable(i) ==
  \/ i = Len(tiles') /\ spawner'.timeSinceLastSpawn = 0 /\ tiles'[i].age \in DeltaTimes
  \/ \E j \in 1..Len(tiles) :
        /\ tiles[j].spawnTheta = tiles'[i].spawnTheta
        /\ tiles[j].column = tiles'[i].column
        /\ tiles[j].TILE_DEPTH = tiles'[i].TILE_DEPTH
        /\ tiles[j].age < tiles'[i].age
        /\ tiles[j].clickable

\* C13: a gameplay frame advances the rotation, spawns, emits trails,
\* evaluates coverage and then checks the tiles, in that order: the trails
\* reach up to the new rotation, every trail left lying over a tile that was
\* in the list and not passed at the scan (the tile spawned in this frame
\* included) is highlighted and its overlap is in the tile's coverage, and
\* the percent of a tile that passes in the frame is taken from the coverage
\* with this frame's share in it.
C13_FrameOrder ==
  [][ PlayingFrame =>
        /\ (trailSpawner'.isSpawning /\ trailSpawner'.lastSpawnRotation # Null)
             => rotation' - trailSpawner'.lastSpawnRotation < AngularSpacing
        /\ \A i \in 1..Len(tiles'), k \in 1..Len(trailSpawner'.trails) :
             ( /\ ScannedClickable(i)
               /\ LiesOver(trailSpawner'.trails[k], tiles'[i], rotation')
               /\ \A j \in 1..Len(tiles') :
                    LiesOver(trailSpawner'.trails[k], tiles'[j], rotation') => j = i )
             => /\ trailSpawner'.trails[k].isHighlighted
                /\ tiles'[i].totalCoverageArea
                     >= TRAIL_HEIGHT * XIntersection(trailSpawner'.trails[k], tiles'[i])
                /\ tiles'[i].hasPassedTarget =>
                     tiles'[i].coveragePercent
                       = Min(100 * tiles'[i].tileArea, 100 * tiles'[i].totalCoverageArea) ]_vars

\* a tile that was spawned, covered by a trail and scored in one and the same
\* frame
C13_Witness ==
  \E i \in 1..Len(tiles) :
    /\ tiles[i].age \in DeltaTimes
    /\ tiles[i].totalCoverageArea > 0
    /\ tiles[i].hasPassedTarget
    /\ tiles[i].coveragePercent > 0
    /\ score > 0

\* C14, as claimed: while the game is neither paused nor over, no operation
\* of the Game lowers the rotation.
C14_RotationNeverDecreases ==
  [][ (~paused /\ ~gameOver) => rotation' >= rotation ]_vars

\* C14, amended: while the game is neither paused nor over, no operation of
\* the Game other than restart(), which sets the rotation to 0, lowers it.
C14_RotationDecreasesOnlyOnRestart ==
  [][ (~paused /\ ~gameOver) => (rotation' >= rotation \/ (Restart /\ rotation' = 0)) ]_vars

\* play goes on after a restart() that followed a scored tile
C14_Witness ==
  /\ ~paused /\ ~gameOver
  /\ highScore > score
  /\ rotation > 0

\* C15, as claimed: no operation on the TileSpawner lowers currentSpawnTheta.
C15_SpawnAngleNeverDecreases ==
  [][ spawner'.currentSpawnTheta >= spawner.currentSpawnTheta ]_vars

\* C15, amended: currentSpawnTheta is lowered only by reset() (restart) or
\* syncToRotation() (startGame), never by update(); and a tile emitted with
\* no reset() or syncToRotation() since the tile before it has a spawn angle
\* no smaller than that tile's.
C15_SpawnAngleMonotoneInUpdate ==
  [][ /\ spawner'.currentSpawnTheta < spawner.currentSpawnTheta
           => (Restart \/ StartGame)
      /\ ( /\ PlayingFrame
           /\ spawner'.timeSinceLastSpawn = 0
           /\ spawner.lastTileTheta # Null )
           => /\ spawner'.lastTileTheta >= spawner.lastTileTheta
              /\ tiles'[Len(tiles')].spawnTheta = spawner'.lastTileTheta ]_vars

\* update() has emitted a second tile since the restart() that followed a
\* scored tile
C15_Witness ==
  /\ highScore > score
  /\ spawner.lastTileTheta # Null
  /\ spawner.lastTileTheta > 0
  /\ spawner.currentSpawnTheta > spawner.lastTileTheta
  /\ Len(tiles) >= 2

\* TILE_DEPTH values of the tiles drawn
TileDepths == { kind[3] : kind \in TileKinds }

C17_ExpiredEntitiesRemoved ==
  /\ \A i \in 1..Len(tiles) : tiles[i].age * angularVelocity <= TILE_LIFE_ANGLE
  /\ \A k \in 1..Len(trailSpawner.trails) :
       trailSpawner.trails[k].age * angularVelocity <= TRAIL_LIFE_ANGLE
  /\ liveTiles = Len(tiles)
  /\ trailSpawner.live = Len(trailSpawner.trails)

\* the trails that covered a scored tile have all aged out, and so has the
\* first tile
C17_Witness ==
  /\ score > 0
  /\ trailSpawner.trails = <<>>
  /\ tiles # <<>>
  /\ tiles[1].spawnTheta > 0

\* C18: the target x is always within [-3, 3]: moveTargetZone(x) stores x
\* clamped to that range, restart() stores 0 and setTargetWidthIndex() keeps
\* the x it found.
C18_TargetXClamped ==
  /\ [](-TARGET_X_LIMIT <= targetX /\ targetX <= TARGET_X_LIMIT)
  /\ [][ /\ \A x \in TargetInputs :
             MoveTargetZone(x) =>
               targetX' = (IF x > TARGET_X_LIMIT THEN TARGET_X_LIMIT
                           ELSE IF x < -TARGET_X_LIMIT THEN -TARGET_X_LIMIT ELSE x)
        /\ Restart => targetX' = 0
        /\ \A index \in WidthInputs : SetTargetWidthIndex(index) => targetX' = targetX ]_vars

\* the target zone was recreated with another width while at the right limit
C18_Witness ==
  /\ targetX = TARGET_X_LIMIT
  /\ targetWidthIndex = 1

\* C19: for every tile and every trail of a reachable state,
\* addTrailCoverage(trail.x, trail.width, TRAIL_HEIGHT) on the tile adds
\* exactly (intersection width of their x extents) * TRAIL_HEIGHT to
\* totalCoverageArea, the intersection being no wider than either of them,
\* and changes nothing when the tile has passed or the intersection is
\* empty; no other field changes.
C19_AddTrailCoverageExact ==
  \A i \in 1..Len(tiles), k \in 1..Len(trailSpawner.trails) :
    LET t == tiles[i]
        tr == trailSpawner.trails[k]
        w == XIntersection(tr, t)
    IN  tr.width # NaN =>
          /\ w <= tr.width /\ w <= t.TILE_WIDTH
          /\ AddTrailCoverage(t, tr.x, tr.width, TRAIL_HEIGHT)
               = [ t EXCEPT !.totalCoverageArea =
                     IF t.hasPassedTarget THEN @ ELSE @ + w * TRAIL_HEIGHT ]

\* a tile that has taken coverage and not yet passed, with a trail that
\* overlaps it in part, and a tile that has passed
C19_Witness ==
  /\ \E i \in 1..Len(tiles), k \in 1..Len(trailSpawner.trails) :
       /\ ~tiles[i].hasPassedTarget
       /\ tiles[i].totalCoverageArea > 0
       /\ trailSpawner.trails[k].width # NaN
       /\ XIntersection(trailSpawner.trails[k], tiles[i]) > 0
       /\ XIntersection(trailSpawner.trails[k], tiles[i]) < tiles[i].TILE_WIDTH
  /\ \E k \in 1..Len(trailSpawner.trails) : trailSpawner.trails[k].isHighlighted

\* totalCoverageArea of tiles'[i] before the step (0 for a tile spawned in it)
CoverageBefore(i) ==
  LET old == { j \in 1..Len(tiles) :
                 /\ tiles[j].spawnTheta = tiles'[i].spawnTheta
                 /\ tiles[j].column = tiles'[i].column
                 /\ tiles[j].TILE_DEPTH = tiles'[i].TILE_DEPTH
                 /\ tiles[j].age <= tiles'[i].age }
  IN  IF old = {} THEN 0 ELSE tiles[CHOOSE j \in old : TRUE].totalCoverageArea

\* C20: a tile gains coverage in a step only if the step is a gameplay frame,
\* the tile had not passed when the trails were scanned, and some trail of
\* the list scanned, not yet highlighted, has the tile's width class, has its
\* z within the tile's [back, front] and has its x centre closer to the
\* tile's than half the sum of the widths; so a tile of another width class
\* and a tile that has passed gain none.
C20_CoverageOnlyWhenMatching ==
  [][ \A i \in 1..Len(tiles') :
        tiles'[i].totalCoverageArea > CoverageBefore(i) =>
          /\ PlayingFrame
          /\ ScannedClickable(i)
          /\ \E k \in 1..Len(EmitTrails(rotation').trails) :
               /\ ~EmitTrails(rotation').trails[k].isHighlighted
               /\ LiesOver(EmitTrails(rotation').trails[k], tiles'[i], rotation') ]_vars

\* a tile holding the coverage of exactly one trail, which lies over it
\* highlighted, next to a trail of the same width class that lies off it
C20_Witness ==
  \E i \in 1..Len(tiles), k, l \in 1..Len(trailSpawner.trails) :
    /\ trailSpawner.trails[k].isHighlighted
    /\ LiesOver(trailSpawner.trails[k], tiles[i], rotation)
    /\ tiles[i].totalCoverageArea
         = TRAIL_HEIGHT * XIntersection(trailSpawner.trails[k], tiles[i])
    /\ ~trailSpawner.trails[l].isHighlighted
    /\ ~LiesOver(trailSpawner.trails[l], tiles[i], rotation)

\* the trails of list b are trails of list a (none was emitted in between)
NoTrailEmitted(a, b) ==
  /\ Len(b) <= Len(a)
  /\ \A k \in 1..Len(b) : \E j \in 1..Len(a) :
       /\ b[k].spawnRotation = a[j].spawnRotation
       /\ b[k].x = a[j].x
       /\ b[k].age >= a[j].age

\* C21: stopSpawning() leaves the trail list as it is, none disposed or
\* removed; spawnTrails() after it emits nothing, at any rotation, also after
\* an updateSpawnPosition(), and in the Game no trail appears from the
\* release until the next press; updateSpawnPosition() writes spawnX and
\* spawnWidthIndex and nothing else, so the origin a held frame advances from
\* stays on the cadence.
C21_StopAndMoveSpawning ==
  /\ [] LET s == StopSpawning(trailSpawner)
        IN  /\ s.trails = trailSpawner.trails
            /\ s.live = trailSpawner.live
            /\ \A d \in DeltaTimes, x \in TargetInputs, w \in 0..(Len(TILE_WIDTHS) - 1) :
                 /\ SpawnTrails(s, Rotate(rotation, d)).trails = trailSpawner.trails
                 /\ SpawnTrails(UpdateSpawnPosition(s, x, w), Rotate(rotation, d)).trails
                      = trailSpawner.trails
                 /\ LET u == UpdateSpawnPosition(trailSpawner, x, w)
                    IN  /\ u.spawnX = x /\ u.spawnWidthIndex = w
                        /\ u.lastSpawnRotation = trailSpawner.lastSpawnRotation
                        /\ u.isSpawning = trailSpawner.isSpawning
                        /\ u.trails = trailSpawner.trails
                        /\ u.live = trailSpawner.live
  /\ [][ /\ OnHitEnd =>
              /\ trailSpawner'.trails = trailSpawner.trails
              /\ trailSpawner'.live = trailSpawner.live
              /\ ~trailSpawner'.isSpawning
         /\ (~trailSpawner.isSpawning /\ ~OnHitStart) =>
              /\ NoTrailEmitted(trailSpawner.trails, trailSpawner'.trails)
              /\ ~trailSpawner'.isSpawning
         /\ (PlayingFrame /\ trailSpawner.isSpawning) =>
              (trailSpawner'.lastSpawnRotation - trailSpawner.lastSpawnRotation)
                 % AngularSpacing = 0 ]_vars

\* the trails of one held frame have gone through a whole gameplay frame
\* after the release, and are all still there
C21_Witness ==
  /\ ~trailSpawner.isSpawning /\ ~isHitting
  /\ ~paused /\ ~gameOver
  /\ Len(trailSpawner.trails) = (angularVelocity * NominalFrame) \div AngularSpacing
  /\ \A k \in 1..Len(trailSpawner.trails) : trailSpawner.trails[k].age = 2 * NominalFrame

\* a step of one of the input-facing operations of Game
InputOperation ==
  \/ \E x \in TargetInputs : MoveTargetZone(x)
  \/ OnHitStart
  \/ OnHitEnd
  \/ \E index \in WidthInputs : SetTargetWidthIndex(index)
  \/ \E p \in BOOLEAN : SetPaused(p)
  \/ \E visible \in BOOLEAN : SetTargetVisible(visible)
  \/ StartGame

\* C22: moveTargetZone, onHitStart, onHitEnd, setTargetWidthIndex, setPaused,
\* setTargetVisible and startGame leave the tile list, the trail list, the
\* count of disposed tiles and trails, the score and the lives as they are;
\* the lists, the score and the lives change only in a gameplay frame of
\* update() or in restart(), which empties both lists.
C22_ListsOwnedByUpdate ==
  [][ /\ InputOperation =>
           /\ UNCHANGED <<tiles, liveTiles, score, lives>>
           /\ trailSpawner'.trails = trailSpawner.trails
           /\ trailSpawner'.live = trailSpawner.live
      /\ ( \/ tiles' # tiles \/ trailSpawner'.trails # trailSpawner.trails
           \/ liveTiles' # liveTiles \/ trailSpawner'.live # trailSpawner.live
           \/ score' # score \/ lives' # lives )
           => (PlayingFrame \/ Restart)
      /\ Restart => (tiles' = <<>> /\ trailSpawner'.trails = <<>>) ]_vars

\* the target was moved after the trails on the track were emitted, with a
\* tile on the track
C22_Witness ==
  /\ targetX # 0
  /\ tiles # <<>>
  /\ trailSpawner.trails # <<>>
  /\ \A k \in 1..Len(trailSpawner.trails) : trailSpawner.trails[k].x = X_OFFSET

\* a gameplay frame in which the spawner emits its first tile since the last
\* syncToRotation()
FirstTileAfterSync ==
  /\ PlayingFrame
  /\ spawner.sinceSync # Null
  /\ spawner.lastTileTheta = Null
  /\ spawner'.lastTileTheta # Null

\* what startGame() leaves: not paused, the spawn angle at the rotation, the
\* spawner's clocks as they were
StartGameEffect ==
  StartGame =>
    /\ ~paused'
    /\ spawner'.currentSpawnTheta = rotation'
    /\ rotation' = rotation
    /\ spawner'.timeSinceLastSpawn = spawner.timeSinceLastSpawn
    /\ spawner'.gameTime = spawner.gameTime

\* C23, as claimed (under StartSpec): after startGame() the game is not
\* paused and the spawn angle is the rotation, and the first tile after it is
\* emitted only when the un-paused frame time since startGame() has reached
\* the spawn interval in effect.
C23_FirstTileAfterFullInterval ==
  [][ /\ StartGameEffect
      /\ FirstTileAfterSync =>
           spawner'.sinceSync * rampDuration >= GetSpawnInterval(spawner'.gameTime) ]_vars

\* C23, amended (under StartSpec): after startGame() the game is not paused
\* and the spawn angle is the rotation; startGame() leaves timeSinceLastSpawn
\* as it was, and the first tile after it is emitted in the first gameplay
\* frame in which timeSinceLastSpawn, the time carried over from before
\* startGame() included, reaches the interval in effect: a full interval
\* after startGame() when nothing was carried over, and with the spawn angle
\* startGame() stored.
C23_FirstTileAfterStart ==
  /\ [](spawner.sinceSync # Null => spawner.sinceSync >= 0)
  /\ []((spawner.sinceSync # Null /\ spawner.lastTileTheta = Null)
          => spawner.timeSinceLastSpawn >= spawner.sinceSync)
  /\ [][ /\ StartGameEffect
         /\ (PlayingFrame /\ spawner.sinceSync # Null /\ spawner.lastTileTheta = Null) =>
              LET deltaTime == (rotation' - rotation) \div angularVelocity
                  carried == spawner.timeSinceLastSpawn - spawner.sinceSync
                  due == (spawner.timeSinceLastSpawn + deltaTime) * rampDuration
                           >= GetSpawnInterval(spawner'.gameTime)
              IN  /\ spawner'.sinceSync = spawner.sinceSync + deltaTime
                  /\ spawner'.lastTileTheta # Null <=> due
                  /\ (due /\ carried = 0) =>
                       spawner'.sinceSync * rampDuration
                         >= GetSpawnInterval(spawner'.gameTime)
                  /\ due => /\ spawner'.lastTileTheta = spawner.currentSpawnTheta
                            /\ tiles'[Len(tiles')].spawnTheta = spawner.currentSpawnTheta ]_vars

\* the first tile after a startGame() made from the menu, with the ground
\* turned while paused: emitted a full interval after it, at the angle the
\* rotation had then
C23_Witness ==
  /\ spawner.sinceSync # Null
  /\ spawner.lastTileTheta # Null /\ spawner.lastTileTheta > 0
  /\ spawner.timeSinceLastSpawn = 0
  /\ spawner.gameTime = spawner.sinceSync
  /\ spawner.sinceSync * rampDuration >= GetSpawnInterval(spawner.gameTime)
  /\ tiles # <<>>
  /\ tiles[Len(tiles)].spawnTheta = spawner.lastTileTheta

\* C24 (under HitSpec): startHit() on a tile that is not clickable returns
\* false and changes no field; updateHit() changes no field unless the tile
\* is being hit and clickable; completeHit() is called at most once for a
\* tile, and exactly the completed tiles are not clickable.
C24_HitGuards ==
  /\ [](hitTile.completions <= 1)
  /\ [](hitTile.clickable <=> hitTile.completions = 0)
  /\ [](~hitTile.clickable => ~hitTile.isBeingHit)
  /\ [][ /\ (HitStart /\ ~hitTile.clickable) =>
              /\ hitTile'.lastReturn = 0
              /\ hitTile' = [ hitTile EXCEPT !.lastReturn = 0 ]
         /\ (HitStart /\ hitTile.clickable) => hitTile'.lastReturn = 1
         /\ \A deltaTime \in HitDeltas :
              (HitUpdate(deltaTime) /\ ~(hitTile.isBeingHit /\ hitTile.clickable))
                => UNCHANGED hitTile ]_vars

\* a completed tile on which startHit() has since returned false
C24_Witness ==
  /\ hitTile.completions = 1
  /\ hitTile.hitProgress >= PROGRESS_ONE
  /\ hitTile.lastReturn = 0
  /\ ~hitTile.disposed

C26_StopHitPenalty ==
  /\ [](hitTile.hitProgress >= 0)
  /\ [][ HitStop =>
           /\ ~hitTile'.isBeingHit
           /\ hitTile'.hitProgress
                = (IF hitTile.hitProgress >= HIT_PENALTY
                   THEN hitTile.hitProgress - HIT_PENALTY ELSE 0)
           /\ 5 * HIT_PENALTY = PROGRESS_ONE
           /\ (4 * hitTile.hitProgress = 3 * PROGRESS_ONE)
                => 20 * hitTile'.hitProgress = 11 * PROGRESS_ONE
           /\ (10 * hitTile.hitProgress = PROGRESS_ONE) => hitTile'.hitProgress = 0 ]_vars

\* stopHit() was called at progress 0.1 and left 0
C26_Witness ==
  /\ 10 * hitTile.lastStop = PROGRESS_ONE
  /\ hitTile.hitProgress = 0
  /\ ~hitTile.isBeingHit

\* C27 (under HitSpec): over every sequence of startHit, updateHit and
\* stopHit calls followed by the one dispose() of the tile, the progress
\* overlay and the tile mesh have each received at most one dispose call.
C27_MeshDisposedOnce ==
  /\ hitTile.progressDisposals <= 1
  /\ hitTile.meshDisposals <= 1

\* |a - b| <= tol
Near(a, b, tol) == a - b <= tol /\ b - a <= tol

\* C28 (under PlaceSpec): a tile and a trail with the same lane offset x and
\* the same angle theta get the same position and rotation; the tile's theta
\* is its spawn angle plus 120 degrees; the position is x across and, in the
\* y-z plane, at angle theta on the circle of radius sqrt(300^2 - x^2) + 0.1,
\* and the rotation about the lane axis is -theta; a tile in lane x = 0.75 at
\* spawn angle 0 is at y = 259.9, z = -150.0, within 0.5.
C28_SamePlacement ==
  placed.kind # "none" =>
    LET x == placed.position[1]
        y == placed.position[2]
        z == placed.position[3]
        radius == Sqrt(SPHERE_RADIUS * SPHERE_RADIUS - x * x)
    IN  /\ x = placed.x
        /\ placed.rotationX = -placed.theta
        /\ radius * radius <= SPHERE_RADIUS * SPHERE_RADIUS - x * x
        /\ (radius + 1) * (radius + 1) > SPHERE_RADIUS * SPHERE_RADIUS - x * x
        \* on the circle of the effective radius, within 0.2
        /\ y * y + z * z >= (radius + HEIGHT_OFFSET - 20) * (radius + HEIGHT_OFFSET - 20)
        /\ y * y + z * z <= (radius + HEIGHT_OFFSET + 20) * (radius + HEIGHT_OFFSET + 20)
        \* at angle theta: y / z = sin / cos, within 0.2 of a length
        /\ Near(Scale(y, Cos(placed.theta)), Scale(z, Sin(placed.theta)), 20)
        /\ (y >= 0 <=> Sin(placed.theta) >= 0) \/ Near(y, 0, 20)
        /\ placed.kind = "tile" =>
             /\ placed.theta = placed.spawnTheta + TILE_LEAD_ANGLE
             /\ TrailCreateMesh(placed.x, placed.theta).position = placed.position
             /\ TrailCreateMesh(placed.x, placed.theta).rotationX = placed.rotationX
             /\ (placed.x = 75 /\ placed.spawnTheta = 0)
                  => Near(y, 25990, 50) /\ Near(z, -15000, 50)

\* the tile of the example: lane x = 0.75, spawn angle 0
C28_Witness ==
  /\ placed.kind = "tile"
  /\ placed.x = 75 /\ placed.spawnTheta = 0
  /\ placed.position[2] > 25900 /\ placed.position[3] < -14900

C30_LivesInRange ==
  /\ lives \in 0..3
  /\ gameOver <=> (lives = 0)

(***************************************************************************)
(* C31..C39                                                                *)
(***************************************************************************)
\* C31: from the moment gameOver becomes true until restart(), score and lives
\* do not change, the remainder of the update call that triggered the game
\* over included; the final score recorded at the transition equals the
\* score at every later moment before restart.
C31_FrozenAfterGameOver ==
  gameOver =>
    /\ score = gameLog.scoreAtGameOver
    /\ lives = gameLog.livesAtGameOver
    /\ score = gameLog.finalScore

\* C32: every tile that update() removes from the active list because its age
\* exceeds the 30 degree budget has already passed the target and had its
\* coverage scored: no tile is disposed by age before being evaluated.
C32_ScoredBeforeAgedOut ==
  gameLog.unscoredDisposals = 0

C34_NoTrailsForPausedRotation ==
  [][ PlayingFrame =>
        LET kept == KeptTrails((rotation' - rotation) \div angularVelocity)
            n == Len(trailSpawner'.trails) - kept
        IN  n <= 1 + (rotation' - rotation) \div AngularSpacing ]_vars

\* C35: in every reachable state of Game, isHitting is true exactly when
\* trailSpawner.isSpawning is true, and isSpawning implies lastSpawnRotation
\* is not null, after any interleaving of onHitStart, onHitEnd, update,
\* restart, setPaused and startGame.
C35_HittingIffSpawning ==
  /\ isHitting <=> trailSpawner.isSpawning
  /\ trailSpawner.isSpawning => trailSpawner.lastSpawnRotation # Null

\* a hold during which update() has emitted trails and advanced the origin
C35_Witness ==
  /\ isHitting
  /\ trailSpawner.isSpawning
  /\ trailSpawner.trails # <<>>
  /\ trailSpawner.lastSpawnRotation > 0
  /\ trailSpawner.lastSpawnRotation < rotation

\* C36: throughout one hold (from onHitStart to the next onHitEnd or restart)
\* every trail emitted has the same widthIndex, equal to targetWidthIndex at
\* the moment of onHitStart, and that widthIndex is one of 0, 1, 2: while the
\* hold lasts the spawner's width class equals targetWidthIndex, which does
\* not change, and the trails a frame emits carry it.
C36_OneWidthPerHold ==
  /\ [](isHitting => trailSpawner.spawnWidthIndex = targetWidthIndex)
  /\ [][ (isHitting /\ isHitting') => targetWidthIndex' = targetWidthIndex ]_vars
  /\ [][ PlayingFrame =>
           LET kept == KeptTrails((rotation' - rotation) \div angularVelocity)
           IN  \A k \in (kept + 1)..Len(trailSpawner'.trails) :
                 /\ trailSpawner'.trails[k].widthIndex = targetWidthIndex
                 /\ trailSpawner'.trails[k].widthIndex \in {0, 1, 2} ]_vars

\* C37 (under HitSpec): in the hold-to-hit Tile, once isFullyHit() returns
\* true it returns true forever after: no later startHit, updateHit or
\* stopHit call on a completed tile makes it report not fully hit again.
C37_FullyHitIsStable ==
  [][ IsFullyHit(hitTile) => IsFullyHit(hitTile') ]_vars

\* C38: in every reachable state of Game, highScore >= score >= 0; highScore
\* never decreases under any operation, and restart resets score to 0 while
\* leaving highScore unchanged.
C38_HighScoreMonotone ==
  /\ [](highScore >= score /\ score >= 0)
  /\ [][ highScore' >= highScore ]_vars
  /\ [][ Restart => (score' = 0 /\ highScore' = highScore) ]_vars

\* after a restart that followed a game with a score: the high score stands
C38_Witness ==
  /\ score = 0
  /\ highScore > 0
  /\ rotation = 0
  /\ tiles = <<>>

\* C39 (under InputSpec): after every input event and every Game operation,
\* game.isHitting equals InputHandler.spacebarHeld, across any interleaving of
\* Space keydown (auto-repeat included), Space keyup, pointer down, pointer up
\* and Game.restart; auto-repeated keydown events during one hold call
\* onHitStart only once.
C39_HittingIffHeld ==
  /\ isHitting = inputHandler.spacebarHeld
  /\ inputHandler.keydownHitStarts <= 1

====
